---- MODULE Spec2Model ----
(***************************************************************************)
(* Model of the change-aware parallel lint/test runner ("turbo test",      *)
(* src/unnamed/part_000).                                                  *)
(*                                                                         *)
(* Text is modelled structurally.  A string without line breaks is a       *)
(* sequence of tokens (each token an atomic piece of text), a multi-line   *)
(* string is a sequence of such lines (what split('\n') returns).  Every   *)
(* pattern the program searches for is itself a token sequence, so         *)
(* includes / endsWith / replace are computed on the tokens exactly as     *)
(* the JavaScript string methods compute them on the characters.           *)
(***************************************************************************)
EXTENDS Integers, Sequences, FiniteSets, TLC

(***************************************************************************)
(* String primitives (the JavaScript String methods the program uses)      *)
(***************************************************************************)

\* const v = e; ... : the value of F at e, with e evaluated once
With(e, F(_)) == LET v == e IN F(v)

\* s.startsWith(p) at offset i (1-based): p occurs in s starting at i
MatchAt(s, p, i) ==
    /\ i >= 1
    /\ i + Len(p) - 1 <= Len(s)
    /\ \A k \in 1..Len(p) : s[i + k - 1] = p[k]

\* s.startsWith(p)
StartsWith(s, p) == MatchAt(s, p, 1)

\* s.endsWith(p)
EndsWith(s, p) == Len(p) <= Len(s) /\ MatchAt(s, p, Len(s) - Len(p) + 1)

\* s.indexOf(p), 1-based; 0 when p does not occur (JavaScript: -1)
IndexOf(s, p) ==
    With({i \in 1..(Len(s) + 1) : MatchAt(s, p, i)},
         LAMBDA hits : IF hits = {} THEN 0
                       ELSE CHOOSE i \in hits : \A j \in hits : i <= j)

\* s.includes(p)
Includes(s, p) == \E i \in 1..(Len(s) + 1) : MatchAt(s, p, i)

\* s.replace(p, r) with a string pattern: only the FIRST occurrence is replaced
ReplaceFirst(s, p, r) ==
    With(IndexOf(s, p),
         LAMBDA i : IF i = 0 THEN s
                    ELSE SubSeq(s, 1, i - 1) \o r \o SubSeq(s, i + Len(p), Len(s)))

\* whitespace tokens (what \s matches and trim() strips)
IsSpace(t) == t \in {" ", "\t"}

\* line.trim() is empty
IsBlank(line) == \A i \in 1..Len(line) : IsSpace(line[i])

\* line.trim()
TrimLine(line) ==
    IF IsBlank(line) THEN <<>>
    ELSE LET first == CHOOSE i \in 1..Len(line) :
                          /\ ~IsSpace(line[i])
                          /\ \A j \in 1..(i - 1) : IsSpace(line[j])
             last  == CHOOSE i \in 1..Len(line) :
                          /\ ~IsSpace(line[i])
                          /\ \A j \in (i + 1)..Len(line) : IsSpace(line[j])
         IN  SubSeq(line, first, last)

\* array.filter(pred) for a predicate given as the set of accepted elements' indexes
RECURSIVE FilterIdx(_, _, _)
FilterIdx(seq, keep, i) ==
    IF i > Len(seq) THEN <<>>
    ELSE (IF i \in keep THEN <<seq[i]>> ELSE <<>>) \o FilterIdx(seq, keep, i + 1)

\* the elements of a sequence
Range(seq) == {seq[i] : i \in 1..Len(seq)}

\* fault variant of SetAdd: an Array.push, which keeps a path given twice
ArrayPush(seq, x) == Append(seq, x)

\* Set.add on an insertion-ordered Set: append unless already present
SetAdd(seq, x) == IF x \in Range(seq) THEN seq ELSE Append(seq, x)

\* text.includes(p) for a multi-line text and a pattern without line breaks
TextIncludes(text, p) == \E i \in 1..Len(text) : Includes(text[i], p)

(***************************************************************************)
(* Paths and cache keys.  A path is tokenised as "src", "/", name, ...,     *)
(* extension tokens (".spec", ".ts", ".html").                             *)
(***************************************************************************)
DOT_TS      == <<".ts">>
DOT_SPEC_TS == <<".spec", ".ts">>
DOT_HTML    == <<".html">>

\* `source:${sourceFile}` and `lint:${file}`
SourceKey(f) == <<"source:">> \o f
LintKey(f)   == <<"lint:">> \o f

\* fault variant of specFileOf: the trailing suffix is replaced
specFileOfTrailing(file) == SubSeq(file, 1, Len(file) - Len(DOT_TS)) \o DOT_SPEC_TS

\* file.replace('.ts', '.spec.ts')
specFileOf(file) == ReplaceFirst(file, DOT_TS, DOT_SPEC_TS)

\* file.replace('.spec.ts', '.ts')
sourceFileOf(file) == ReplaceFirst(file, DOT_SPEC_TS, DOT_TS)

(***************************************************************************)
(* File system and fingerprint store                                       *)
(***************************************************************************)

\* what reading a missing file yields (readFileSync throws)
ENOENT == "ENOENT"

\* the file contents the model distinguishes
Contents == {"v1", "v2"}

\* fs.readFileSync(path): the content, or ENOENT for a path not on disk
ReadFile(fs, f) == IF f \in DOMAIN fs THEN fs[f] ELSE ENOENT

\* execSync(`test -f "${file}"`) succeeds
FileExists(fs, f) == ReadFile(fs, f) # ENOENT

\* the null sentinel getFileHash returns for an unreadable file
Null == <<"null">>

\* fault variant of Md5: a digest that does not depend on the content
ConstantDigest(content) == <<"md5", "v1">>

\* crypto.createHash('md5').update(content).digest('hex'): one digest per content
Md5(content) == <<"md5", content>>

\* getFileHash(filePath)
getFileHash(fs, filePath) ==
    IF ReadFile(fs, filePath) = ENOENT THEN Null ELSE Md5(ReadFile(fs, filePath))

\* the cache object {}: a mapping from keys to entries
EmptyCache == [k \in {} |-> <<>>]

\* cache[key] is defined (truthy)
Has(cache, key) == key \in DOMAIN cache

\* cache[key] = entry
Put(cache, key, entry) ==
    [k \in (DOMAIN cache) \cup {key} |-> IF k = key THEN entry ELSE cache[k]]

\* the `error` field of an entry written without one
NoError == <<>>

\* { hash, status, timestamp: Date.now(), error }
Entry(hash, status, now, error) ==
    [hash |-> hash, status |-> status, timestamp |-> now, error |-> error]

\* the cache file: whether it exists, what its text is ("object": the JSON text of
\* a mapping, "null": the JSON text null, "garbage": no JSON text) and the mapping
\* an "object" text holds
NoCacheFile == [present |-> FALSE, json |-> "none", data |-> EmptyCache]
NullCacheFile == [present |-> TRUE, json |-> "null", data |-> EmptyCache]
GarbageCacheFile == [present |-> TRUE, json |-> "garbage", data |-> EmptyCache]

\* loadCache() returns null: the file exists and JSON.parse gives null
loadsNull(file) == file.present /\ file.json = "null"

\* loadCache(): the parsed mapping; {} when the file is absent or JSON.parse throws.
\* For a file that parses to null the value is null (loadsNull), and the mapping
\* given here stands for it only where nothing is read from it
loadCache(file) ==
    IF file.present /\ file.json = "object" THEN file.data ELSE EmptyCache

\* the cache file after fs.writeFileSync(CACHE_FILE, JSON.stringify(cache, null, 2))
\* (line 161): the whole file is the text of the mapping
Written(cache) == [present |-> TRUE, json |-> "object", data |-> cache]

\* the outcome of a cache file operation: the file it leaves, and whether its catch
\* printed a warning (console.warn, lines 163 and 177)
Outcome(file, warned) == [file |-> file, warned |-> warned]

\* saveCache(cache) (lines 154-165), for the cache file as it is.  The file is
\* overwritten with the text of the mapping.  Or the try fails and the catch
\* (162-164) warns: mkdirSync or the open of writeFileSync throws and the file
\* stays as it was, or the open has created or emptied the file and the write
\* throws (no space left), which leaves a file that is empty or cut short, text
\* that JSON.parse rejects
saveCache(file, cache) ==
    {Outcome(Written(cache), FALSE), Outcome(file, TRUE), Outcome(GarbageCacheFile, TRUE)}

(***************************************************************************)
(* Selection engine                                                        *)
(***************************************************************************)

\* getSpecFiles, first loop: the insertion-ordered Set allSpecFiles
RECURSIVE allSpecFiles(_, _)
allSpecFiles(changes, i) ==
    IF i = 0 THEN <<>>
    ELSE With(changes[i].file, LAMBDA file :
         With(allSpecFiles(changes, i - 1), LAMBDA acc :
         With(IF EndsWith(file, DOT_SPEC_TS) THEN SetAdd(acc, file) ELSE acc,
              LAMBDA acc1 :
             IF EndsWith(file, DOT_TS) /\ ~EndsWith(file, DOT_SPEC_TS)
             THEN SetAdd(acc1, specFileOf(file))
             ELSE acc1)))

\* getSpecFiles: Array.from(allSpecFiles).filter(file exists)
existingSpecFiles(changes, fs) ==
    With(allSpecFiles(changes, Len(changes)),
         LAMBDA all : FilterIdx(all, {i \in 1..Len(all) : FileExists(fs, all[i])}, 1))

\* fault variant of specChanged: a spec file whose entry is failed is run again
specChangedRetryingFailed(cache, fs, file) ==
    \/ ~Has(cache, file)
    \/ cache[file].hash # getFileHash(fs, file)
    \/ cache[file].status = "failed"

\* getSpecFiles: specChanged
specChanged(cache, fs, file) ==
    ~Has(cache, file) \/ cache[file].hash # getFileHash(fs, file)

\* fault variant of sourceChanged: the companion source is never consulted
sourceIgnored(cache, fs, file) == FALSE

\* getSpecFiles: sourceChanged
sourceChanged(cache, fs, file) ==
    With(sourceFileOf(file), LAMBDA sourceFile :
    With(getFileHash(fs, sourceFile), LAMBDA sourceHash :
        /\ sourceHash # Null
        /\ (~Has(cache, SourceKey(sourceFile))
              \/ cache[SourceKey(sourceFile)].hash # sourceHash)))

\* getSpecFiles: shouldRun
specShouldRun(cache, fs, file) ==
    specChanged(cache, fs, file) \/ sourceChanged(cache, fs, file)

\* getSpecFiles(changes, cache)
getSpecFiles(changes, cache, fs) ==
    With(existingSpecFiles(changes, fs), LAMBDA ex :
        [toRun  |-> FilterIdx(ex, {i \in 1..Len(ex) : specShouldRun(cache, fs, ex[i])}, 1),
         cached |-> FilterIdx(ex, {i \in 1..Len(ex) : ~specShouldRun(cache, fs, ex[i])}, 1)])

\* generateLintCommand: the insertion-ordered Set allFilesToLint
RECURSIVE allFilesToLint(_, _)
allFilesToLint(changes, i) ==
    IF i = 0 THEN <<>>
    ELSE With(changes[i].file, LAMBDA file :
         With(allFilesToLint(changes, i - 1), LAMBDA acc :
             IF EndsWith(file, DOT_HTML) \/ EndsWith(file, DOT_TS)
             THEN SetAdd(acc, file)
             ELSE acc))

\* fault variant of lintShouldRun: a file whose entry is failed is linted again
lintShouldRunRetryingFailed(cache, fs, file) ==
    \/ ~Has(cache, LintKey(file))
    \/ cache[LintKey(file)].hash # getFileHash(fs, file)
    \/ cache[LintKey(file)].status = "failed"

\* generateLintCommand: shouldRun
lintShouldRun(cache, fs, file) ==
    ~Has(cache, LintKey(file)) \/ cache[LintKey(file)].hash # getFileHash(fs, file)

\* generateLintCommand(changes, cache): command is TRUE when a command string is built
generateLintCommand(changes, cache, fs) ==
    With(allFilesToLint(changes, Len(changes)), LAMBDA all :
    With(FilterIdx(all, {i \in 1..Len(all) : lintShouldRun(cache, fs, all[i])}, 1),
         LAMBDA toRun :
    With(FilterIdx(all, {i \in 1..Len(all) : ~lintShouldRun(cache, fs, all[i])}, 1),
         LAMBDA cached :
        IF Len(changes) = 0 \/ Len(all) = 0
        THEN [command |-> FALSE, toRun |-> <<>>, cached |-> <<>>]
        ELSE [command |-> Len(toRun) # 0, toRun |-> toRun, cached |-> cached])))

\* the lintResult used when --disable-lint is given
NoLint == [command |-> FALSE, toRun |-> <<>>, cached |-> <<>>]

\* fault variant of generateNgTestCommand: a build-only command when every spec file
\* is cached
generateNgTestCommandBuildOnly(specFiles, cachedFiles) ==
    Len(specFiles) # 0 \/ Len(cachedFiles) # 0

\* generateNgTestCommand(specFiles, cachedFiles): TRUE when a command string is built
generateNgTestCommand(specFiles, cachedFiles) ==
    IF Len(specFiles) = 0 /\ Len(cachedFiles) = 0 THEN FALSE
    ELSE Len(specFiles) # 0

(***************************************************************************)
(* Result classifier: patterns                                             *)
(***************************************************************************)
P_TOTAL     == <<"TOTAL", ":">>                     \* 'TOTAL:'
P_FAILED    == <<"FAILED">>                         \* 'FAILED'
P_COVERAGE  == <<"Coverage">>                       \* 'Coverage'
P_COVSUM    == <<"Coverage", " ", "summary">>       \* 'Coverage summary'
P_ERROR_TAG == <<"[", "ERROR", "]">>                \* '[ERROR]'
P_ERROR_TS  == <<"[", "ERROR", "]", " ", "TS">>     \* '[ERROR] TS'
P_ERROR     == <<"ERROR">>                          \* 'ERROR'
P_BUNDLE    == <<"Application bundle generation failed">>
P_BUILDING  == <<"Building">>                       \* 'Building'
P_SRC       == <<"src", "/">>                       \* 'src/'
P_COLON     == <<":">>                              \* ':'
P_CHROME    == <<"Chrome Headless">>                \* 'Chrome Headless'
P_EXECUTED  == <<"Executed">>                       \* 'Executed'
P_INCOMPLETE == <<"Test execution ", "incomplete", " or ", "interrupted">>

\* the decimal digits (\d) and their values
Digits == <<"0", "1", "2", "3", "4", "5", "6", "7", "8", "9">>
IsDigit(t) == t \in Range(Digits)
DigitVal(t) == (CHOOSE i \in 1..10 : Digits[i] = t) - 1

\* Number.parseInt of a run of digit tokens
RECURSIVE parseInt(_)
parseInt(ds) ==
    IF Len(ds) = 0 THEN 0
    ELSE 10 * parseInt(SubSeq(ds, 1, Len(ds) - 1)) + DigitVal(ds[Len(ds)])

\* `${n}` for a non-negative integer
RECURSIVE numToString(_)
numToString(n) ==
    IF n < 10 THEN <<Digits[n + 1]>>
    ELSE numToString(n \div 10) \o <<Digits[(n % 10) + 1]>>

\* first index >= i of a token that is not whitespace (Len + 1 when none): \s*
RECURSIVE SkipSpaces(_, _)
SkipSpaces(line, i) ==
    IF i <= Len(line) /\ IsSpace(line[i]) THEN SkipSpaces(line, i + 1) ELSE i

\* first index >= i of a token that is not a digit (Len + 1 when none): \d+
RECURSIVE SkipDigits(_, _)
SkipDigits(line, i) ==
    IF i <= Len(line) /\ IsDigit(line[i]) THEN SkipDigits(line, i + 1) ELSE i

\* /TOTAL:\s*(\d+)\s*FAILED,\s*(\d+)\s*SUCCESS/ anchored at index i of a line:
\* the two captured digit runs, or <<>> when the pattern does not match there
SummaryAt(line, i) ==
    With(SkipSpaces(line, i + 2), LAMBDA d1 :
    With(SkipDigits(line, d1),    LAMBDA e1 :
    With(SkipSpaces(line, e1),    LAMBDA f  :
    With(SkipSpaces(line, f + 2), LAMBDA d2 :
    With(SkipDigits(line, d2),    LAMBDA e2 :
    With(SkipSpaces(line, e2),    LAMBDA s  :
        IF /\ MatchAt(line, P_TOTAL, i)
           /\ e1 > d1
           /\ MatchAt(line, <<"FAILED", ",">>, f)
           /\ e2 > d2
           /\ MatchAt(line, <<"SUCCESS">>, s)
        THEN <<SubSeq(line, d1, e1 - 1), SubSeq(line, d2, e2 - 1)>>
        ELSE <<>>))))))

\* errorMsg.match(/TOTAL:\s*(\d+)\s*FAILED,\s*(\d+)\s*SUCCESS/): the captures of
\* the first match, or <<>> (null).  A match never spans a line break here:
\* no line of the model ends inside the pattern.
summaryMatch(lines) ==
    With(UNION { {<<l, i>> : i \in {j \in 1..Len(lines[l]) : SummaryAt(lines[l], j) # <<>>}} :
                 l \in 1..Len(lines) },
         LAMBDA hits :
            IF hits = {} THEN <<>>
            ELSE With(CHOOSE h \in hits :
                         \A g \in hits : h[1] < g[1] \/ (h[1] = g[1] /\ h[2] <= g[2]),
                      LAMBDA h : SummaryAt(lines[h[1]], h[2])))

(***************************************************************************)
(* Result classifier: failure reason of a FAILED test process              *)
(***************************************************************************)

\* errorOutputs[name].trim().split('\n'), for output accumulated as whole lines
\* (each chunk one line and its line break); <<>> when the trimmed text is ''
TrimText(output) ==
    With({i \in 1..Len(output) : ~IsBlank(output[i])}, LAMBDA solid :
        IF solid = {} THEN <<>>
        ELSE With(SubSeq(output, CHOOSE i \in solid : \A j \in solid : i <= j,
                                 CHOOSE i \in solid : \A j \in solid : j <= i),
                  LAMBDA body :
             With([body EXCEPT ![1] = SubSeq(body[1], SkipSpaces(body[1], 1), Len(body[1]))],
                  LAMBDA b1 :
             With(b1[Len(b1)], LAMBDA tl :
             With(CHOOSE i \in 1..Len(tl) :
                     ~IsSpace(tl[i]) /\ \A j \in (i + 1)..Len(tl) : IsSpace(tl[j]),
                  LAMBDA keep : [b1 EXCEPT ![Len(b1)] = SubSeq(tl, 1, keep)])))))

\* errorOutputs[name]?.trim() || `Process exited with code ${code}`, split in lines
errorMsgOf(output, code) ==
    With(TrimText(output), LAMBDA trimmed :
        IF trimmed = <<>>
        THEN << <<"Process exited with code", " ", code>> >>
        ELSE trimmed)

\* the loop that collects errorSection: from the first FAILED line up to the
\* TOTAL / 'Coverage summary' line
RECURSIVE errorSection(_, _, _)
errorSection(lines, i, captureErrors) ==
    IF i > Len(lines) THEN <<>>
    ELSE With(lines[i], LAMBDA line :
         With(\/ captureErrors
              \/ /\ Includes(line, P_FAILED)
                 /\ ~Includes(line, P_COVERAGE)
                 /\ ~Includes(line, P_TOTAL),
              LAMBDA cap :
             IF cap /\ (Includes(line, P_TOTAL) \/ Includes(line, P_COVSUM))
             THEN <<>>
             ELSE (IF cap THEN <<line>> ELSE <<>>) \o errorSection(lines, i + 1, cap)))

\* failureReasons[name] when the summary line is found
summaryReason(lines) ==
    With(summaryMatch(lines), LAMBDA m :
    With(m[1], LAMBDA failedCount :
    With(m[2], LAMBDA successCount :
    With(parseInt(failedCount) + parseInt(successCount), LAMBDA total :
    With(<<"TOTAL", ":", " ">> \o numToString(total)
            \o <<",", " ", "FAILED", ":", " ">> \o failedCount
            \o <<",", " ", "SUCCESS", ":", " ">> \o successCount,
         LAMBDA summary : <<summary>> \o errorSection(lines, 1, FALSE))))))

\* errorMsg.includes('[ERROR] TS') || errorMsg.includes('Application bundle generation failed')
hasCompilationError(lines) ==
    TextIncludes(lines, P_ERROR_TS) \/ TextIncludes(lines, P_BUNDLE)

\* errorPart.replace(/\s*\[plugin.*?\]\s*$/, '')
removePluginSuffix(s) ==
    With({j \in 1..Len(s) :
            /\ MatchAt(s, <<"[", "plugin">>, j)
            /\ \E k \in (j + 2)..Len(s) :
                  s[k] = "]" /\ \A r \in (k + 1)..Len(s) : IsSpace(s[r])},
         LAMBDA tags :
            IF tags = {} THEN s
            ELSE With(CHOOSE j \in tags : \A k \in tags : j <= k, LAMBDA j :
                 With(CHOOSE p \in 1..j :
                        /\ \A r \in p..(j - 1) : IsSpace(s[r])
                        /\ \A q \in 1..(p - 1) : \E r \in q..(j - 1) : ~IsSpace(s[r]),
                      LAMBDA p : SubSeq(s, 1, p - 1))))

\* nextLine.split(':').slice(0, 3).join(':')
firstThreeFields(line) ==
    With({i \in 1..Len(line) : line[i] = ":"}, LAMBDA colons :
    With({i \in colons : Cardinality({c \in colons : c < i}) = 2}, LAMBDA third :
        IF third = {} THEN line
        ELSE SubSeq(line, 1, (CHOOSE i \in third : TRUE) - 1)))

\* the smaller of two numbers (Math.min)
Min(a, b) == IF a < b THEN a ELSE b

\* the file location looked up in the lines after an '[ERROR] TS' line:
\* for (j = i + 1; j < Math.min(i + 10, lines.length); j++), 1-based; 0: none
locationAfter(lines, i) ==
    With({j \in (i + 1)..Min(i + 9, Len(lines)) :
            With(TrimLine(lines[j]), LAMBDA nextLine :
                StartsWith(nextLine, P_SRC) /\ Includes(nextLine, P_COLON))},
         LAMBDA found : IF found = {} THEN 0
                        ELSE CHOOSE j \in found : \A k \in found : j <= k)

\* the loop that collects tsErrorLines (lines and i are 1-based here)
RECURSIVE tsErrorLines(_, _, _)
tsErrorLines(lines, i, acc) ==
    IF i > Len(lines) THEN acc
    ELSE IF ~Includes(lines[i], P_ERROR_TS) THEN tsErrorLines(lines, i + 1, acc)
    ELSE With(lines[i], LAMBDA line :
         With(IndexOf(line, P_ERROR_TAG), LAMBDA errorIdx :
         \* substring(errorIdx + 8): the tag and the one character after it
         With(TrimLine(SubSeq(line, errorIdx + 4, Len(line))), LAMBDA errorPart :
         With(removePluginSuffix(errorPart), LAMBDA stripped :
         With(TrimLine(stripped), LAMBDA cleanError :
         With(IF cleanError # <<>> THEN Append(acc, cleanError) ELSE acc, LAMBDA acc1 :
         With(locationAfter(lines, i), LAMBDA loc :
         With(IF loc = 0 THEN acc1
              ELSE With(TrimLine(lines[loc]), LAMBDA nextLine :
                       Append(acc1, <<" ", " ", "at", " ">> \o firstThreeFields(nextLine))),
              LAMBDA acc2 :
             IF Len(acc2) >= 6 THEN acc2 ELSE tsErrorLines(lines, i + 1, acc2)))))))))

\* array.slice(0, n)
Take(seq, n) == SubSeq(seq, 1, IF n < Len(seq) THEN n ELSE Len(seq))

\* array.slice(-n)
TakeLast(seq, n) == SubSeq(seq, (IF Len(seq) > n THEN Len(seq) - n + 1 ELSE 1), Len(seq))

\* failureReasons[name] for a compiler-diagnostic failure
compilationReason(lines) ==
    With(tsErrorLines(lines, 1, <<>>), LAMBDA ts :
        IF Len(ts) > 0 THEN ts
        ELSE With(FilterIdx(lines,
                      {i \in 1..Len(lines) :
                          Includes(lines[i], P_ERROR) \/ Includes(lines[i], P_SRC)}, 1),
                  LAMBDA matching :
             With(Take(matching, 5), LAMBDA errorLines :
                 IF Len(errorLines) > 0 THEN errorLines
                 ELSE << <<"Compilation failed - check TypeScript errors">> >>)))

\* fault variant of noSummaryReason: the 'Building' marker is not looked for
noSummaryReasonIgnoringBuilding(lines) ==
    With(FilterIdx(lines, {i \in 1..Len(lines) : ~IsBlank(lines[i])}, 1),
         LAMBDA errorLines :
            IF Len(errorLines) = 0 THEN <<P_INCOMPLETE>> ELSE TakeLast(errorLines, 5))

\* failureReasons[name] when neither a summary nor a compiler diagnostic is found
noSummaryReason(lines) ==
    With(FilterIdx(lines,
             {i \in 1..Len(lines) :
                 ~IsBlank(lines[i]) /\ ~Includes(lines[i], P_BUILDING)}, 1),
         LAMBDA errorLines :
            IF TextIncludes(lines, P_BUILDING) \/ Len(errorLines) = 0
            THEN <<P_INCOMPLETE>>
            ELSE TakeLast(errorLines, 5))

\* failureReasons['Test'] for errorMsg (lines 642-744)
testFailureReason(lines) ==
    IF summaryMatch(lines) # <<>> THEN summaryReason(lines)
    ELSE IF hasCompilationError(lines) THEN compilationReason(lines)
    ELSE noSummaryReason(lines)

\* shouldCache (line 748)
shouldCache(reason) ==
    /\ reason # << <<>> >>
    /\ ~TextIncludes(reason, P_INCOMPLETE)

(***************************************************************************)
(* Per-file error filtering                                                *)
(***************************************************************************)

\* the look-ahead that decides isOurFile for the FAILED line at index i:
\* for (j = i + 1; j < Math.min(i + 15, lines.length); j++), 1-based
RECURSIVE isOurFile(_, _, _, _)
isOurFile(lines, filePath, i, j) ==
    IF j > Min(i + 14, Len(lines)) THEN FALSE
    ELSE IF Includes(lines[j], filePath) THEN TRUE
    ELSE IF /\ Includes(lines[j], P_CHROME)
            /\ (Includes(lines[j], P_FAILED) \/ Includes(lines[j], P_EXECUTED))
         THEN FALSE
    ELSE isOurFile(lines, filePath, i, j + 1)

\* the main loop of filterErrorsByFile over lines[i..]
RECURSIVE filterLoop(_, _, _, _)
filterLoop(lines, filePath, i, inRelevantSection) ==
    IF i > Len(lines) THEN <<>>
    ELSE With(lines[i], LAMBDA line :
             IF Includes(line, P_FAILED) /\ Includes(line, P_CHROME)
             THEN With(isOurFile(lines, filePath, i, i + 1), LAMBDA ours :
                      (IF ours THEN <<line>> ELSE <<>>)
                        \o filterLoop(lines, filePath, i + 1, ours))
             ELSE IF Includes(line, P_EXECUTED) /\ Includes(line, P_CHROME)
             THEN (IF inRelevantSection \/ Includes(line, filePath)
                   THEN <<line>> ELSE <<>>)
                        \o filterLoop(lines, filePath, i + 1, FALSE)
             ELSE IF inRelevantSection
             THEN IF Includes(line, DOT_SPEC_TS) /\ ~Includes(line, filePath)
                  THEN filterLoop(lines, filePath, i + 1, FALSE)
                  ELSE <<line>> \o filterLoop(lines, filePath, i + 1, TRUE)
             ELSE filterLoop(lines, filePath, i + 1, FALSE))

\* filterErrorsByFile(fullError, filePath), fullError given as its lines
filterErrorsByFile(fullError, filePath) ==
    With({i \in 1..Len(fullError) : Includes(fullError[i], P_TOTAL)}, LAMBDA totals :
    With(IF totals = {} THEN <<>>
         ELSE <<fullError[CHOOSE i \in totals : \A j \in totals : i <= j]>>,
         LAMBDA totalLine :
    With(totalLine \o filterLoop(fullError, filePath, 1, FALSE), LAMBDA filteredLines :
        IF Len(filteredLines) <= 1 THEN fullError ELSE filteredLines)))

(***************************************************************************)
(* Cache writer                                                            *)
(***************************************************************************)

\* tokens that contain a blank inside (they end a run of [^\s:]+)
SpacedTokens == {"Application bundle generation failed", "Chrome Headless",
                 "Process exited with code", "Test execution ", " or ",
                 "Compilation failed - check TypeScript errors"}

\* a token [^\s:]+ can run over
NoSpaceNoColon(t) == ~IsSpace(t) /\ t # ":" /\ t \notin SpacedTokens

\* a token [^:]+ can run over
NoColon(t) == t # ":"

\* index of the last '.ts' a greedy run starting at index from can end with,
\* with at least one token of the run before it (0: none)
lastTsInRun(line, from, lintRule) ==
    With({k \in (from + 1)..Len(line) :
            /\ line[k] = ".ts"
            /\ \A r \in from..k :
                  IF lintRule THEN NoColon(line[r]) ELSE NoSpaceNoColon(line[r])},
         LAMBDA ends : IF ends = {} THEN 0
                       ELSE CHOOSE k \in ends : \A r \in ends : r <= k)

\* line.match(/(src\/[^\s:]+\.(?:spec\.)?ts)/g): the set of matched paths from index p on
RECURSIVE srcMatches(_, _)
srcMatches(line, p) ==
    IF p > Len(line) THEN {}
    ELSE With(IF MatchAt(line, P_SRC, p) THEN lastTsInRun(line, p + 2, FALSE) ELSE 0,
              LAMBDA k : IF k = 0 THEN srcMatches(line, p + 1)
                         ELSE {SubSeq(line, p, k)} \cup srcMatches(line, k + 1))

\* filesInError: every path matched in any line of errorMsg
filesInError(lines) == UNION {srcMatches(lines[i], 1) : i \in 1..Len(lines)}

\* the working tree as each of the reads of a test write-back finds it when no file
\* changes meanwhile: two reads per file, the spec file and its companion source
Still(fs, files) == [j \in 1..(2 * Len(files)) |-> fs]

\* one iteration of filesToCache.test.forEach in the FAILED branch (lines 770-791,
\* 797-820); specTree and sourceTree are the working tree as the two getFileHash
\* calls find it
cacheFailedTestFile(cache, specTree, sourceTree, now, reason, file) ==
    With(getFileHash(specTree, file), LAMBDA hash :
    With(IF hash # Null
         THEN With(Entry(hash, "failed", now, filterErrorsByFile(reason, file)),
                   LAMBDA entry : Put(cache, file, entry))
         ELSE cache,
         LAMBDA c1 :
    With(sourceFileOf(file), LAMBDA sourceFile :
    With(getFileHash(sourceTree, sourceFile), LAMBDA sourceHash :
        IF sourceHash # Null
        THEN Put(c1, SourceKey(sourceFile), Entry(sourceHash, "failed", now, NoError))
        ELSE c1))))

\* fault variant of filesToFail: only the files the output names, for any failure
filesToFailOnlyNamed(lines, files) == {f \in Range(files) : f \in filesInError(lines)}

\* the attempted files a cacheable FAILED test writes entries for (lines 752-769, 795):
\* those named in the output for a compiler-diagnostic failure, otherwise all
filesToFail(lines, files) ==
    IF hasCompilationError(lines)
    THEN {f \in Range(files) : f \in filesInError(lines)}
    ELSE Range(files)

\* filesToCache.test.forEach for a cacheable FAILED test (lines 768-821): the cache
\* after the first i files, given the files to fail and failureReasons['Test'];
\* trees[2i - 1] and trees[2i] are the working tree at the two reads of file i
RECURSIVE cacheFailedTestLoop(_, _, _, _, _, _, _)
cacheFailedTestLoop(cache, trees, now, toFail, reason, files, i) ==
    IF i = 0 THEN cache
    ELSE With(cacheFailedTestLoop(cache, trees, now, toFail, reason, files, i - 1),
              LAMBDA prev :
                 IF files[i] \notin toFail THEN prev
                 ELSE cacheFailedTestFile(prev, trees[2 * i - 1], trees[2 * i], now,
                                          reason, files[i]))

\* the cache after the write-back of a cacheable FAILED test with output lines
\* (lines 750-822)
cacheFailedTests(cache, trees, now, lines, files) ==
    With(filesToFail(lines, files), LAMBDA toFail :
    With(testFailureReason(lines), LAMBDA reason :
        cacheFailedTestLoop(cache, trees, now, toFail, reason, files, Len(files))))

\* the cache after filesToCache.test.forEach for a PASSED test (lines 904-924);
\* trees[2i - 1] and trees[2i] are the working tree at the two reads of file i
RECURSIVE cachePassedTests(_, _, _, _, _)
cachePassedTests(cache, trees, now, files, i) ==
    IF i = 0 THEN cache
    ELSE With(cachePassedTests(cache, trees, now, files, i - 1), LAMBDA prev :
         With(files[i], LAMBDA file :
         With(getFileHash(trees[2 * i - 1], file), LAMBDA hash :
         With(IF hash # Null
              THEN Put(prev, file, Entry(hash, "passed", now, NoError))
              ELSE prev,
              LAMBDA c1 :
         With(sourceFileOf(file), LAMBDA sourceFile :
         With(getFileHash(trees[2 * i], sourceFile), LAMBDA sourceHash :
             IF sourceHash # Null
             THEN Put(c1, SourceKey(sourceFile), Entry(sourceHash, "passed", now, NoError))
             ELSE c1))))))

\* fault variant of cachePassedLint: the entry is written without the if (hash) test
RECURSIVE cachePassedLintUnguarded(_, _, _, _, _)
cachePassedLintUnguarded(cache, fs, now, files, i) ==
    IF i = 0 THEN cache
    ELSE Put(cachePassedLintUnguarded(cache, fs, now, files, i - 1), LintKey(files[i]),
             Entry(getFileHash(fs, files[i]), "passed", now, NoError))

\* the cache after filesToCache.lint.forEach for a PASSED lint (lines 892-901)
RECURSIVE cachePassedLint(_, _, _, _, _)
cachePassedLint(cache, fs, now, files, i) ==
    IF i = 0 THEN cache
    ELSE With(cachePassedLint(cache, fs, now, files, i - 1), LAMBDA prev :
         With(getFileHash(fs, files[i]), LAMBDA hash :
             IF hash # Null
             THEN Put(prev, LintKey(files[i]), Entry(hash, "passed", now, NoError))
             ELSE prev))

(***************************************************************************)
(* Result classifier: FAILED lint process                                  *)
(***************************************************************************)
IsUpper(t) == t \in {"A", "B", "C", "D", "E", "F", "G", "H", "I", "J", "K", "L", "M",
                     "N", "O", "P", "Q", "R", "S", "T", "U", "V", "W", "X", "Y", "Z"}

\* /^\d+:\d+/
startsWithLineCol(line) ==
    With(SkipDigits(line, 1), LAMBDA e1 :
        e1 > 1 /\ MatchAt(line, P_COLON, e1) /\ SkipDigits(line, e1 + 1) > e1 + 1)

\* failureReasons['Lint'] (lines 827-842)
lintFailureReason(lines) ==
    With(FilterIdx(lines, {i \in 1..Len(lines) : ~IsBlank(lines[i])}, 1),
         LAMBDA errorLines :
    With(FilterIdx(errorLines,
             {i \in 1..Len(errorLines) :
                 \/ Includes(errorLines[i], <<"error">>)
                 \/ Includes(errorLines[i], <<"warning">>)
                 \/ Includes(errorLines[i], <<"x-mark">>)
                 \/ startsWithLineCol(errorLines[i])}, 1),
         LAMBDA errorDetailLines :
            IF Len(errorDetailLines) > 0 THEN errorDetailLines
            ELSE TakeLast(errorLines, 5)))

\* line.match(/([A-Z]:\\[^:]+\.ts|src\/[^:]+\.ts)/): index pair <<p, k>> of the first
\* match, <<0, 0>> when there is none
lintPathMatch(line) ==
    With([p \in 1..Len(line) |->
            With(IF p + 2 <= Len(line) /\ IsUpper(line[p]) /\ line[p + 1] = ":"
                                       /\ line[p + 2] = "\\"
                 THEN lastTsInRun(line, p + 3, TRUE) ELSE 0,
                 LAMBDA drive :
                    IF drive # 0 THEN drive
                    ELSE IF MatchAt(line, P_SRC, p) THEN lastTsInRun(line, p + 2, TRUE)
                    ELSE 0)],
         LAMBDA endAt :
    With({p \in 1..Len(line) : endAt[p] # 0}, LAMBDA starts :
        IF starts = {} THEN <<0, 0>>
        ELSE With(CHOOSE p \in starts : \A q \in starts : p <= q,
                  LAMBDA p : <<p, endAt[p]>>)))

\* filePath.split('\\') ... parts.slice(srcIndex).join('/'): the path from its first
\* 'src' component on, with '/' separators; unchanged when no component is 'src'
normalizeWindowsPath(path) ==
    With({i \in 1..Len(path) : path[i] = "\\"}, LAMBDA seps :
    With({i \in 1..Len(path) :
            /\ path[i] = "src"
            /\ (i = 1 \/ (i - 1) \in seps)
            /\ (i = Len(path) \/ (i + 1) \in seps)},
         LAMBDA srcAt :
        IF srcAt = {} THEN path
        ELSE With(CHOOSE i \in srcAt : \A j \in srcAt : i <= j, LAMBDA i :
                 [k \in 1..(Len(path) - i + 1) |->
                     IF path[i + k - 1] = "\\" THEN "/" ELSE path[i + k - 1]])))

\* failedFiles: the paths extracted from the lint output (lines 846-863)
failedFiles(lines) ==
    With(FilterIdx(lines, {i \in 1..Len(lines) : ~IsBlank(lines[i])}, 1),
         LAMBDA errorLines :
            { With(lintPathMatch(line), LAMBDA m :
              With(SubSeq(line, m[1], m[2]), LAMBDA filePath :
                  IF Includes(filePath, <<"\\">>) THEN normalizeWindowsPath(filePath)
                  ELSE filePath)) :
              line \in {l \in Range(errorLines) : lintPathMatch(l) # <<0, 0>>} })

\* filesToCache.lint.forEach for a FAILED lint (lines 866-877): the cache after the
\* first i files, given failedFiles and failureReasons['Lint']
RECURSIVE cacheFailedLintLoop(_, _, _, _, _, _, _)
cacheFailedLintLoop(cache, fs, now, failedSet, reason, files, i) ==
    IF i = 0 THEN cache
    ELSE With(cacheFailedLintLoop(cache, fs, now, failedSet, reason, files, i - 1),
              LAMBDA prev :
         With(getFileHash(fs, files[i]), LAMBDA hash :
         With(files[i] \in failedSet, LAMBDA hasFailed :
             IF hash # Null
             THEN With(Entry(hash, IF hasFailed THEN "failed" ELSE "passed", now,
                             IF hasFailed THEN reason ELSE NoError),
                       LAMBDA entry : Put(prev, LintKey(files[i]), entry))
             ELSE prev)))

\* the cache after the write-back of a FAILED lint with output lines (lines 844-877)
cacheFailedLint(cache, fs, now, lines, files) ==
    With(failedFiles(lines), LAMBDA failedSet :
    With(lintFailureReason(lines), LAMBDA reason :
        cacheFailedLintLoop(cache, fs, now, failedSet, reason, files, Len(files))))

(***************************************************************************)
(* Change detector: the type of one status line                            *)
(***************************************************************************)

\* detectGitChanges, lines 227-231: the type for a two-character status code
changeType(status) ==
    IF status[1] = "A" \/ status = <<"A", " ">> THEN "added"
    ELSE IF status[1] = "D" \/ status = <<"D", " ">> THEN "deleted"
    ELSE IF status[1] = "R" \/ status = <<"R", " ">> THEN "renamed"
    ELSE IF status = <<"?", "?">> THEN "untracked"
    ELSE "modified"

\* changes.push({ status, file, type })
Change(status, file) == [status |-> status, file |-> file, type |-> changeType(status)]

\* lines.forEach (lines 218-235): the records pushed for the first i lines.  A line
\* is a sequence of tokens; its two status characters are one token each
RECURSIVE statusRecords(_, _)
statusRecords(lines, i) ==
    IF i = 0 THEN <<>>
    ELSE With(statusRecords(lines, i - 1), LAMBDA acc :
         With(lines[i], LAMBDA line :
             IF Len(line) = 0 THEN acc
             ELSE With(Take(line, 2), LAMBDA status :
                  With(TrimLine(SubSeq(line, 3, Len(line))), LAMBDA file :
                      IF file = <<>> THEN acc
                      ELSE Append(acc, Change(status, file))))))

\* detectGitChanges(): for the result of execSync('git status --porcelain'), which
\* either fails (the catch returns []) or gives the lines the command printed
detectGitChanges(statusOutput) ==
    IF statusOutput.failed THEN <<>>
    ELSE With(TrimText(statusOutput.stdout),
              LAMBDA lines : statusRecords(lines, Len(lines)))

(***************************************************************************)
(* The environment of a run: files, change lists, tool output              *)
(***************************************************************************)
A_TS    == <<"src", "/", "a", ".ts">>
A_SPEC  == <<"src", "/", "a", ".spec", ".ts">>
B_SPEC  == <<"src", "/", "b", ".spec", ".ts">>
\* a spec file named after a spec file: its companion by suffix replacement is A_SPEC
A_SPEC2 == <<"src", "/", "a", ".spec", ".spec", ".ts">>
\* a template: a lint candidate that is not a TypeScript file
A_HTML  == <<"src", "/", "a", ".html">>

\* the files of the working tree the model tracks
Files == {A_TS, A_SPEC, B_SPEC, A_SPEC2, A_HTML}

\* a working tree in which exactly the files of present exist, with content "v1"
Tree(present) == [f \in Files |-> IF f \in present THEN "v1" ELSE ENOENT]

\* one line of `git status --porcelain`: the two status characters, a blank, the path
StatusLine(x, y, file) == <<x, y, " ">> \o file

\* what `git status --porcelain` printed
Printed(lines) == [failed |-> FALSE, stdout |-> lines]

\* files that are neither lint nor test candidates
README == <<"README", ".md">>
NOTES  == <<"docs", "/", "notes", ".md">>

\* the working trees and `git status` results a run starts from; the last ones are
\* a clean tree, a failing query, and output with an empty and a path-less line
Scenarios ==
    { [status |-> Printed(<<StatusLine(" ", "M", A_TS)>>),
       fs     |-> Tree({A_TS, A_SPEC})],
      [status |-> Printed(<<StatusLine(" ", "M", A_SPEC), StatusLine("?", "?", B_SPEC)>>),
       fs     |-> Tree({A_TS, A_SPEC, B_SPEC})],
      [status |-> Printed(<<StatusLine(" ", "D", A_TS), StatusLine("M", " ", B_SPEC)>>),
       fs     |-> Tree({A_SPEC, B_SPEC})],
      [status |-> Printed(<<StatusLine("M", " ", A_SPEC), StatusLine("A", " ", A_SPEC2)>>),
       fs     |-> Tree({A_SPEC, A_SPEC2})],
      [status |-> Printed(<<StatusLine(" ", "M", A_HTML)>>),
       fs     |-> Tree({A_HTML})],
      [status |-> Printed(<<StatusLine("M", " ", A_TS), StatusLine(" ", "M", A_SPEC)>>),
       fs     |-> Tree({A_TS, A_SPEC})],
      [status |-> Printed(<<>>),
       fs     |-> Tree({A_TS, A_SPEC, B_SPEC})],
      [status |-> [failed |-> TRUE, stdout |-> <<>>],
       fs     |-> Tree({A_TS, A_SPEC, B_SPEC})],
      [status |-> Printed(<<StatusLine("R", " ", README), <<>>, <<" ", "M", " ">>,
                            StatusLine(" ", "D", NOTES)>>),
       fs     |-> Tree({A_TS, A_SPEC})] }

L_Building   == <<"-", " ", "Building", "...">>
L_Success    == <<"TOTAL", ":", " ", "2", " ", "SUCCESS">>
L_Summary    == <<"TOTAL", ":", " ", "1", " ", "FAILED", ",", " ", "1", " ", "SUCCESS">>
L_CaseFailed == <<"Chrome Headless", " ", "works", " ", "FAILED">>
L_Stack(f)   == <<" ", " ", "at", " ">> \o f \o <<":", "1", "2", ":", "5">>
L_TsError    == <<"X", " ", "[", "ERROR", "]", " ", "TS", "2", "3", "2", "2", ":", " ",
                  "mismatch", " ", "[", "plugin", " ", "angular-compiler", "]">>
L_Location(f) == <<" ", " ">> \o f \o <<":", "7", ":", "3", ":">>
L_Bundle     == <<"Application bundle generation failed", ".">>
L_Text       == <<"Error", ":", " ", "boom">>
L_Blank      == <<" ">>

\* what the test tool may print for the spec files it was given: the chunks its
\* pipe delivers one after the other ('data' events), each a sequence of lines
TestScripts(files) ==
    { << <<L_Building, L_Success>> >>,
      << <<L_Building>> >>,
      << <<L_Text>> >>,
      << <<L_Blank>> >>,
      <<>> }
    \cup { << <<L_TsError, L_Location(files[i]), L_Summary>> >> : i \in 1..Min(1, Len(files)) }
    \cup { << <<L_Building>>, <<L_CaseFailed, L_Stack(files[i]), L_Summary>> >> :
               i \in 1..Len(files) }
    \cup { << <<L_Building>>, <<L_TsError, L_Location(files[i]), L_Bundle>> >> :
               i \in 1..Len(files) }

L_LintFile(f)  == <<"/", "home", "/">> \o f
L_LintProblem  == <<" ", " ", "3", ":", "1", " ", " ", "error", " ", " ", "unused">>

\* what the lint tool may print for the files it was given, chunk by chunk
LintScripts(files) ==
    { <<>> } \cup { << <<L_LintFile(files[i]), L_LintProblem>> >> : i \in 1..Len(files) }

\* the timestamps (Date.now()) of an earlier run and of this run
EarlierStamp == "t0"
RunStamp     == "t1"

\* the persisted cache files a run may find: none, or what an earlier run over the
\* same change list wrote when the test and lint tools passed or failed, on the
\* present contents or on older contents ("v0") of the files
EarlierCaches(sc) ==
    With(detectGitChanges(sc.status), LAMBDA earlier :
    With(getSpecFiles(earlier, EmptyCache, sc.fs).toRun, LAMBDA specs :
    With(generateLintCommand(earlier, EmptyCache, sc.fs).toRun, LAMBDA lints :
    With([f \in DOMAIN sc.fs |-> IF sc.fs[f] = ENOENT THEN ENOENT ELSE "v0"],
         LAMBDA older :
    With(cachePassedTests(EmptyCache, Still(sc.fs, specs), EarlierStamp, specs, Len(specs)),
         LAMBDA passedT :
    With(IF Len(specs) = 0 THEN EmptyCache
         ELSE With(<<L_Building, L_CaseFailed, L_Stack(specs[1]), L_Summary>>,
                   LAMBDA failOut : cacheFailedTests(EmptyCache, Still(sc.fs, specs),
                                                     EarlierStamp, failOut, specs)),
         LAMBDA failedT :
    With(cachePassedTests(EmptyCache, Still(older, specs), EarlierStamp, specs, Len(specs)),
         LAMBDA staleT :
        { NoCacheFile,
          Written(cachePassedLint(passedT, sc.fs, EarlierStamp, lints, Len(lints))),
          Written(IF Len(lints) = 0 THEN failedT
                    ELSE With(<<L_LintFile(lints[1]), L_LintProblem>>,
                              LAMBDA lintOut : cacheFailedLint(failedT, sc.fs, EarlierStamp,
                                                               lintOut, lints))),
          Written(cachePassedLint(staleT, older, EarlierStamp, lints, Len(lints))) })))))))

Platforms == {"win32", "posix"}
Names == {"Lint", "Test"}

\* how many times a file content changes: user edits before the run plus
\* rewrites by eslint --fix during the run
MaxEdits == 1

(***************************************************************************)
(* State                                                                   *)
(***************************************************************************)
VARIABLES
    platform,        \* process.platform
    statusOutput,    \* the result of the `git status --porcelain` query
    changes,         \* what detectGitChanges() returned
    fs,              \* the working tree: path -> content
    cacheFile,       \* the persisted cache file (CACHE_FILE)
    warnings,        \* the 'Failed to save cache' warnings (line 163) the run printed
    edits,           \* number of user edits made before the run
    launchedOn,      \* the working tree as it was when the processes were spawned
    fixes,           \* number of files eslint --fix rewrote during the run
    pc,              \* "start", "running" (processes spawned), "done"
    disableLint,     \* --disable-lint
    disableCache,    \* --disable-cache
    cache,           \* the in-memory cache object
    specFilesToRun,  \* getSpecFiles().toRun
    cachedSpecFiles, \* getSpecFiles().cached
    lintResult,      \* generateLintCommand()
    processes,       \* names of the tracked processes, in spawn order
    proc,            \* per process: its state and the chunks it has yet to print
    errorOutputs,    \* per process: the lines accumulated so far
    completed,       \* number of close events handled
    failed,          \* a process exited nonzero
    results,         \* per process: "PASSED" / "FAILED"
    failureReasons,  \* per process: the failure text
    killAttempts,    \* names a termination was attempted for, per closing process
    finalizations,   \* number of times the end-of-run report was emitted
    report,          \* what the run reported
    exitCode         \* the exit code of the run ("none" while running)

vars == <<platform, statusOutput, changes, fs, cacheFile, warnings, edits, launchedOn, fixes, pc, disableLint, disableCache, cache,
          specFilesToRun, cachedSpecFiles, lintResult, processes, proc, errorOutputs,
          completed, failed, results, failureReasons, killAttempts, finalizations,
          report, exitCode>>

envVars == <<platform, statusOutput, changes, fixes>>
runVars == <<disableLint, disableCache, cache, specFilesToRun, cachedSpecFiles,
             lintResult, processes>>

NoProc == [state |-> "none", pending |-> <<>>, code |-> "none"]
NoReport == [kind |-> "none", lintPassed |-> <<>>, lintFailed |-> <<>>,
             testPassed |-> <<>>, testFailed |-> <<>>]

\* the state before a run, but for the cache file it finds
Start ==
    /\ platform \in Platforms
    /\ \E sc \in Scenarios :
          /\ statusOutput = sc.status
          /\ changes = detectGitChanges(sc.status)
          /\ fs = sc.fs
    /\ warnings = <<>>
    /\ edits = 0
    /\ launchedOn = Tree({})
    /\ fixes = 0
    /\ pc = "start"
    /\ disableLint = FALSE
    /\ disableCache = FALSE
    /\ cache = EmptyCache
    /\ specFilesToRun = <<>>
    /\ cachedSpecFiles = <<>>
    /\ lintResult = NoLint
    /\ processes = <<>>
    /\ proc = [n \in Names |-> NoProc]
    /\ errorOutputs = [n \in Names |-> <<>>]
    /\ completed = 0
    /\ failed = FALSE
    /\ results = [n \in Names |-> "none"]
    /\ failureReasons = [n \in Names |-> <<>>]
    /\ killAttempts = {}
    /\ finalizations = 0
    /\ report = NoReport
    /\ exitCode = "none"

\* a run that finds no cache file or the file of an earlier run
Init ==
    /\ Start
    /\ cacheFile \in EarlierCaches([status |-> statusOutput, fs |-> fs])

\* a run that may also find a cache file that does not hold a mapping
InitEnv ==
    /\ Start
    /\ cacheFile \in EarlierCaches([status |-> statusOutput, fs |-> fs])
                        \cup {NullCacheFile, GarbageCacheFile}

(***************************************************************************)
(* Execution coordinator                                                   *)
(***************************************************************************)

\* the cache statistics of a report: cached files split by the status of their entry
cacheStats(c, kind, lintCached, specCached) ==
    LET pick(files, key(_), status) ==
            FilterIdx(files, {i \in 1..Len(files) :
                                 Has(c, key(files[i])) /\ c[key(files[i])].status = status}, 1)
        \* push({ file, error: entry.error })
        withError(files, key(_)) ==
            [i \in 1..Len(files) |-> [file |-> files[i], error |-> c[key(files[i])].error]]
        bare(f) == f
    IN  [kind       |-> kind,
         lintPassed |-> pick(lintCached, LintKey, "passed"),
         lintFailed |-> withError(pick(lintCached, LintKey, "failed"), LintKey),
         testPassed |-> pick(specCached, bare, "passed"),
         testFailed |-> withError(pick(specCached, bare, "failed"), bare)]

\* clearCache() (lines 170-179), for the cache file as it is: a file that exists is
\* unlinked, or unlinkSync throws, the catch (176-178) warns and the file stays
clearCache(file) ==
    IF file.present THEN {Outcome(NoCacheFile, FALSE), Outcome(file, TRUE)}
    ELSE {Outcome(file, FALSE)}

\* lines 1068-1073: the cache files a run started with or without --clear-cache can
\* go on with
cacheFileAtStart(cc) ==
    IF cc THEN clearCache(cacheFile) ELSE {Outcome(cacheFile, FALSE)}

\* lines 456-460: the cache, the selections and the two commands of a run started
\* with the flags --disable-lint (dl) and --disable-cache (dc) that finds the cache
\* file as given
Plan(dl, dc, file) ==
    With(IF dc THEN EmptyCache ELSE loadCache(file), LAMBDA c :
    With(getSpecFiles(changes, IF dc THEN EmptyCache ELSE c, fs), LAMBDA sel :
    With(IF dl THEN NoLint
         ELSE generateLintCommand(changes, IF dc THEN EmptyCache ELSE c, fs),
         LAMBDA lr :
        [cache   |-> c,
         toRun   |-> sel.toRun,
         cached  |-> sel.cached,
         lint    |-> lr,
         testCmd |-> generateNgTestCommand(sel.toRun, IF dc THEN <<>> ELSE sel.cached)])))

\* the cache the run loaded is null and is read: cache[file] in getSpecFiles (line
\* 289) for an existing spec candidate, cache[cacheKey] in generateLintCommand
\* (line 356) for a lint candidate; the TypeError is caught nowhere
nullDereferenced(dl, dc, file) ==
    /\ ~dc
    /\ loadsNull(file)
    /\ \/ Len(existingSpecFiles(changes, fs)) > 0
       \/ ~dl /\ Len(allFilesToLint(changes, Len(changes))) > 0

\* the run ends at lines 457-459 with an uncaught TypeError: nothing is selected,
\* spawned, reported or saved, and the process exits with code 1
RunThrows(dl, dc, cc) ==
    /\ pc = "start"
    /\ \E o \in cacheFileAtStart(cc) : cacheFile' = o.file
    /\ warnings' = <<>>
    /\ nullDereferenced(dl, dc, cacheFile')
    /\ disableLint' = dl
    /\ disableCache' = dc
    /\ pc' = "crashed"
    /\ exitCode' = "1"
    /\ UNCHANGED <<launchedOn, envVars, fs, edits, cache, specFilesToRun, cachedSpecFiles,
                   lintResult, processes, proc, errorOutputs, completed, failed, results,
                   failureReasons, killAttempts, finalizations, report>>

\* the assignments every start of executeParallelCommands makes
Planned(p, dl, dc) ==
    /\ disableLint' = dl
    /\ disableCache' = dc
    /\ cache' = p.cache
    /\ specFilesToRun' = p.toRun
    /\ cachedSpecFiles' = p.cached
    /\ lintResult' = p.lint

\* the user changes the content of a tracked file before the run
EditFile(f, c) ==
    /\ pc = "start"
    /\ edits < MaxEdits
    /\ fs[f] \in Contents /\ c \in Contents /\ c # fs[f]
    /\ fs' = [fs EXCEPT ![f] = c]
    /\ edits' = edits + 1
    /\ UNCHANGED <<launchedOn, envVars, runVars, cacheFile, warnings, pc, proc, errorOutputs, completed, failed,
                   results, failureReasons, killAttempts, finalizations, report, exitCode>>

\* lines 463-546: nothing to launch and something cached: the fully-cached report
RunAllCached(dl, dc, cc) ==
    /\ pc = "start"
    /\ \E o \in cacheFileAtStart(cc) : cacheFile' = o.file
    /\ warnings' = <<>>
    /\ ~nullDereferenced(dl, dc, cacheFile')
    /\ \E p \in {Plan(dl, dc, cacheFile')} :
        /\ ~p.lint.command /\ ~p.testCmd
        /\ Len(p.cached) > 0 \/ Len(p.lint.cached) > 0
        /\ Planned(p, dl, dc)
        /\ report' = cacheStats(p.cache, "all-cached", p.lint.cached, p.cached)
        /\ pc' = "done"
        /\ exitCode' = "0"
        /\ UNCHANGED <<launchedOn, envVars, fs, edits, processes, proc, errorOutputs,
                       completed, failed, results, failureReasons, killAttempts,
                       finalizations>>

\* lines 548-551: nothing to launch and nothing cached
RunNothing(dl, dc, cc) ==
    /\ pc = "start"
    /\ \E o \in cacheFileAtStart(cc) : cacheFile' = o.file
    /\ warnings' = <<>>
    /\ ~nullDereferenced(dl, dc, cacheFile')
    /\ \E p \in {Plan(dl, dc, cacheFile')} :
        /\ ~p.lint.command /\ ~p.testCmd
        /\ ~(Len(p.cached) > 0 \/ Len(p.lint.cached) > 0)
        /\ Planned(p, dl, dc)
        /\ report' = [NoReport EXCEPT !.kind = "nothing"]
        /\ pc' = "done"
        /\ exitCode' = "0"
        /\ UNCHANGED <<launchedOn, envVars, fs, edits, processes, proc, errorOutputs,
                       completed, failed, results, failureReasons, killAttempts,
                       finalizations>>

\* lines 553-634: spawn the lint and the test process; each tool is about to print
\* one of the outputs it can print for the files it was given
RunSpawn(dl, dc, cc) ==
    /\ pc = "start"
    /\ \E o \in cacheFileAtStart(cc) : cacheFile' = o.file
    /\ warnings' = <<>>
    /\ ~nullDereferenced(dl, dc, cacheFile')
    /\ \E p \in {Plan(dl, dc, cacheFile')} :
        /\ p.lint.command \/ p.testCmd
        /\ Planned(p, dl, dc)
        /\ processes' = (IF p.lint.command THEN <<"Lint">> ELSE <<>>)
                          \o (IF p.testCmd THEN <<"Test">> ELSE <<>>)
        /\ \E ls \in LintScripts(p.lint.toRun), ts \in TestScripts(p.toRun) :
              proc' = [n \in Names |->
                         IF n = "Lint" /\ p.lint.command
                           THEN [state |-> "running", pending |-> ls, code |-> "none"]
                         ELSE IF n = "Test" /\ p.testCmd
                           THEN [state |-> "running", pending |-> ts, code |-> "none"]
                         ELSE NoProc]
        /\ pc' = "running"
        /\ launchedOn' = fs
        /\ UNCHANGED <<envVars, fs, edits, errorOutputs, completed, failed,
                       results, failureReasons, killAttempts, finalizations, report,
                       exitCode>>

\* lines 594-603, 615-624: a chunk of output arrives and is accumulated
Data(n) ==
    /\ pc = "running"
    /\ proc[n].state \in {"running", "killed"}
    /\ proc[n].pending # <<>>
    /\ errorOutputs' = [errorOutputs EXCEPT ![n] = @ \o Head(proc[n].pending)]
    /\ proc' = [proc EXCEPT ![n].pending = Tail(@)]
    /\ UNCHANGED <<launchedOn, envVars, runVars, fs, cacheFile, warnings, edits, pc,
                   completed, failed, results, failureReasons, killAttempts,
                   finalizations, report, exitCode>>

\* the lint tool is at work: spawned, not exited, and not one that a taskkill was
\* attempted on (such a process is ended, or had exited before)
lintAtWork ==
    /\ proc["Lint"].state = "running"
    /\ ~(platform = "win32" /\ "Lint" \in killAttempts)

\* the files eslint --fix (line 387) can rewrite in the working tree t
fixable(t) == {f \in Range(lintResult.toRun) : ReadFile(t, f) \in Contents}

\* the working tree t after eslint --fix rewrote f
fixedTree(t, f) == [t EXCEPT ![f] = CHOOSE c \in Contents : c # t[f]]

\* line 387: eslint --fix rewrites one of the files it was given while it runs
LintFix(f) ==
    /\ pc = "running"
    /\ lintAtWork
    /\ f \in fixable(fs)
    /\ edits + fixes < MaxEdits
    /\ fs' = fixedTree(fs, f)
    /\ fixes' = fixes + 1
    /\ UNCHANGED <<launchedOn, platform, statusOutput, changes, edits, runVars,
                   cacheFile, warnings, pc, proc, errorOutputs, completed, failed,
                   results, failureReasons, killAttempts, finalizations, report, exitCode>>

\* line 574, on win32: what taskkill /t /f can leave of a process whose close event
\* has not been handled.  The tool has exited already, its output and its close
\* event are queued: taskkill fails, the catch swallows it (lines 580-582) and the
\* process is as it was.  Or the tool is alive and is ended: the chunks it has
\* written to the pipe so far, any prefix of what it had left to print, are still
\* delivered before its close event, which reports code 1.
taskkill(p) ==
    {p} \cup {[state |-> "killed", pending |-> SubSeq(p.pending, 1, k), code |-> "none"] :
                 k \in 0..Len(p.pending)}

\* killAllProcesses (lines 568-585): the states the processes can be in after the
\* attempts.  No process is spawned detached, so none leads a process group: on
\* POSIX process.kill(-pid) fails (ESRCH, swallowed) and every process is as it was.
killAllProcesses(procs) ==
    {after \in [Names -> UNION {taskkill(procs[n]) \cup {procs[n]} : n \in Names}] :
        \A n \in Names :
            IF platform = "win32" /\ procs[n].state = "running"
            THEN after[n] \in taskkill(procs[n])
            ELSE after[n] = procs[n]}

\* the in-memory cache after the close handler's write-back (lines 746-824,
\* 866-877, 891-926), for the failure text errorMsg of the closing process
cacheAfterClose(n, code, errorMsg, reason, trees) ==
    IF code # "0"
    THEN IF n = "Test"
         THEN IF shouldCache(reason)
              THEN cacheFailedTests(cache, trees, RunStamp, errorMsg, specFilesToRun)
              ELSE cache
         ELSE cacheFailedLint(cache, fs, RunStamp, errorMsg, lintResult.toRun)
    ELSE IF n = "Lint" /\ Len(lintResult.toRun) > 0
         THEN cachePassedLint(cache, fs, RunStamp, lintResult.toRun,
                              Len(lintResult.toRun))
    ELSE IF n = "Test" /\ Len(specFilesToRun) > 0
         THEN cachePassedTests(cache, trees, RunStamp, specFilesToRun,
                               Len(specFilesToRun))
    ELSE cache

\* the working trees len successive moments of a handler can find, the first
\* finding t, while eslint --fix rewrites at most budget files, one at most between
\* two moments
RECURSIVE readTrees(_, _, _)
readTrees(t, len, budget) ==
    IF len = 0 THEN {<<>>}
    ELSE IF len = 1 THEN {<<t>>}
    ELSE {<<t>> \o rest :
            rest \in readTrees(t, len - 1, budget)
                       \cup UNION {readTrees(fixedTree(t, f), len - 1, budget - 1) :
                                     f \in IF budget > 0 THEN fixable(t) ELSE {}}}

\* the working tree at each getFileHash call of the handler's write-back (lines
\* 770-819, 904-924), and last the working tree when the handler ends.  The handler
\* of the test process reads the spec files and their companion sources one after
\* the other (readFileSync), then saves the cache (823, 925) and, for a failed
\* process, attempts the terminations (885; on win32 execSync blocks in taskkill).
\* The lint tool, when it is at work, may rewrite a file between two reads and
\* between the last read and the end of the handler.  The handler of the lint
\* process runs when the lint tool has exited.
treesRead(n, code, reason) ==
    IF n = "Test" /\ lintAtWork
    THEN readTrees(fs,
                   (IF (IF code = "0" THEN TRUE ELSE shouldCache(reason))
                    THEN 2 * Len(specFilesToRun) ELSE 1) + 1,
                   MaxEdits - edits - fixes)
    ELSE {Still(fs, specFilesToRun)}

\* fault variant of savesOnClose: only a handler of a failed process writes the
\* cache file
savesOnFailedClose(n, code, reason) == code # "0"

\* fault variant of savesOnClose: only the lint handler writes the cache file
savesOnLintClose(n, code, reason) == n = "Lint"

\* whether the close handler calls saveCache(cache)
savesOnClose(n, code, reason) ==
    IF code # "0"
    THEN n = "Lint" \/ shouldCache(reason)
    ELSE (n = "Lint" /\ Len(lintResult.toRun) > 0)
           \/ (n = "Test" /\ Len(specFilesToRun) > 0)

\* failureReasons[name] of a process that exited nonzero (lines 642-744, 827-842)
failureReason(n, errorMsg) ==
    IF n = "Test" THEN testFailureReason(errorMsg) ELSE lintFailureReason(errorMsg)

\* fault variant of failedAfter: an earlier failure is forgotten
failedByLastExit(wasFailed, code) == code # "0"

\* failed after a close with this exit code (lines 637-638)
failedAfter(wasFailed, code) == wasFailed \/ code # "0"

\* fault variant of killsOnClose: every close event stops the other processes
killsOnAnyClose(code) == TRUE

\* whether the close handler calls killAllProcesses(): in the code !== 0 branch only
\* (lines 637, 885)
killsOnClose(code) == code # "0"

\* fault variant of allDone: any completion counts as the last one
anyDone(count) == count >= 1

\* completed === processes.length (line 930)
allDone(count) == count = Len(processes)

\* proc.on('close', (code) => ...) (lines 633-1033), the whole handler.  A tool
\* exits by itself once it has printed its output; a terminated one reports code 1.
\* After process.exit(1) no further event is handled.
Close(n, code) ==
    /\ exitCode # "1"
    /\ proc[n].state \in {"running", "killed"}
    /\ proc[n].pending = <<>>
    /\ proc[n].state = "killed" => code = "1"
    /\ completed' = completed + 1
    /\ failed' = failedAfter(failed, code)
    /\ results' = [results EXCEPT ![n] = IF code # "0" THEN "FAILED" ELSE "PASSED"]
    /\ \E errorMsg \in {errorMsgOf(errorOutputs[n], code)} :
       \E reason \in {IF code = "0" THEN <<>> ELSE failureReason(n, errorMsg)} :
          /\ failureReasons' = IF code = "0" THEN failureReasons
                               ELSE [failureReasons EXCEPT ![n] = reason]
          /\ \E trees \in treesRead(n, code, reason) :
                /\ cache' = cacheAfterClose(n, code, errorMsg, reason, trees)
                /\ fs' = IF trees = <<>> THEN fs ELSE trees[Len(trees)]
                /\ fixes' = fixes + Cardinality({j \in 1..(Len(trees) - 1) :
                                                     trees[j + 1] # trees[j]})
          /\ \E o \in IF savesOnClose(n, code, reason)
                       THEN saveCache(cacheFile, cache')
                       ELSE {Outcome(cacheFile, FALSE)} :
                /\ cacheFile' = o.file
                /\ warnings' = (IF o.warned THEN Append(warnings, "save") ELSE warnings)
    /\ LET closed == [proc EXCEPT ![n] = [state |-> "closed", pending |-> <<>>,
                                         code |-> code]]
       IN  /\ proc' \in IF killsOnClose(code) THEN killAllProcesses(closed) ELSE {closed}
           /\ killAttempts' = IF killsOnClose(code)
                              THEN killAttempts \cup Range(processes)
                              ELSE killAttempts
    /\ IF allDone(completed')
       THEN /\ finalizations' = finalizations + 1
            /\ report' = cacheStats(cache', "results", lintResult.cached, cachedSpecFiles)
            /\ pc' = "done"
            /\ exitCode' = IF failed' THEN "1" ELSE "0"
       ELSE UNCHANGED <<finalizations, report, pc, exitCode>>
    /\ UNCHANGED <<launchedOn, platform, statusOutput, changes, edits, disableLint,
                   disableCache, specFilesToRun, cachedSpecFiles, lintResult, processes,
                   errorOutputs>>

Next ==
    \/ \E f \in Files, c \in Contents : EditFile(f, c)
    \/ \E dl \in BOOLEAN, dc \in BOOLEAN, cc \in BOOLEAN : RunAllCached(dl, dc, cc)
    \/ \E dl \in BOOLEAN, dc \in BOOLEAN, cc \in BOOLEAN : RunNothing(dl, dc, cc)
    \/ \E dl \in BOOLEAN, dc \in BOOLEAN, cc \in BOOLEAN : RunSpawn(dl, dc, cc)
    \/ \E n \in Names : Data(n)
    \/ \E f \in Files : LintFix(f)
    \/ \E n \in Names, code \in {"0", "1"} : Close(n, code)

Spec == Init /\ [][Next]_vars

\* the runs that may find a cache file without a mapping in it
NextEnv ==
    \/ Next
    \/ \E dl \in BOOLEAN, dc \in BOOLEAN, cc \in BOOLEAN : RunThrows(dl, dc, cc)

SpecEnv == InitEnv /\ [][NextEnv]_vars

\* the longest test output, in lines, the failure texts are drawn from
MaxLines == 4

\* the progress line of the test runner
L_Executed == <<"Chrome Headless", ":", " ", "Executed", " ", "2", " ", "of", " ", "2">>

\* the lines a failing test run over src/a.spec.ts and src/b.spec.ts prints
FailureLines ==
    {L_CaseFailed, L_Stack(A_SPEC), L_Stack(B_SPEC), L_Executed, L_Summary, L_Text}

\* every output of at most MaxLines such lines
FailureOutputs == UNION {[1..n -> FailureLines] : n \in 1..MaxLines}

\* a run with --disable-lint over two changed spec files and no cache file, at the
\* point where the test process has printed one of the failure outputs and is about
\* to exit
InitFilter ==
    /\ platform \in Platforms
    /\ statusOutput = Printed(<<StatusLine("M", " ", A_SPEC), StatusLine("M", " ", B_SPEC)>>)
    /\ changes = detectGitChanges(statusOutput)
    /\ fs = Tree({A_TS, A_SPEC, B_SPEC})
    /\ cacheFile = NoCacheFile
    /\ warnings = <<>>
    /\ edits = 0
    /\ launchedOn = fs
    /\ fixes = 0
    /\ pc = "running"
    /\ disableLint = TRUE
    /\ disableCache = FALSE
    /\ cache = EmptyCache
    /\ specFilesToRun = getSpecFiles(changes, EmptyCache, fs).toRun
    /\ cachedSpecFiles = <<>>
    /\ lintResult = NoLint
    /\ processes = <<"Test">>
    /\ proc = [n \in Names |->
                 IF n = "Test" THEN [state |-> "running", pending |-> <<>>, code |-> "none"]
                 ELSE NoProc]
    /\ \E out \in FailureOutputs : errorOutputs = [n \in Names |-> IF n = "Test" THEN out ELSE <<>>]
    /\ completed = 0
    /\ failed = FALSE
    /\ results = [n \in Names |-> "none"]
    /\ failureReasons = [n \in Names |-> <<>>]
    /\ killAttempts = {}
    /\ finalizations = 0
    /\ report = NoReport
    /\ exitCode = "none"

\* the test process exits nonzero and its close handler runs
NextFilter == Close("Test", "1")

SpecFilter == InitFilter /\ [][NextFilter]_vars

\* paths that hold '.ts' or '.spec.ts' earlier than their suffix:
\* src/a.tsconfig.ts, src/a.tsconfig.spec.ts, src/a.spec.tsconfig.ts and
\* src/a.spec.tsconfig.spec.ts
AC_TS        == <<"src", "/", "a", ".ts", "config", ".ts">>
AC_SPEC      == <<"src", "/", "a", ".ts", "config", ".spec", ".ts">>
ASPEC_C_TS   == <<"src", "/", "a", ".spec", ".ts", "config", ".ts">>
ASPEC_C_SPEC == <<"src", "/", "a", ".spec", ".ts", "config", ".spec", ".ts">>

\* a working tree that holds these files beside src/a.ts and src/a.spec.ts
PairingTree ==
    [f \in {A_TS, A_SPEC, AC_TS, AC_SPEC, ASPEC_C_TS, ASPEC_C_SPEC} |-> "v1"]

\* the one changed file of a run over that tree
PairingChanges == {A_TS, A_SPEC, AC_TS, ASPEC_C_SPEC}

\* a first run (no cache file) in which git reports one of these files as modified
InitPairing ==
    /\ platform \in Platforms
    /\ \E f \in PairingChanges : statusOutput = Printed(<<StatusLine("M", " ", f)>>)
    /\ changes = detectGitChanges(statusOutput)
    /\ fs = PairingTree
    /\ cacheFile = NoCacheFile
    /\ warnings = <<>>
    /\ edits = 0
    /\ launchedOn = Tree({})
    /\ fixes = 0
    /\ pc = "start"
    /\ disableLint = FALSE
    /\ disableCache = FALSE
    /\ cache = EmptyCache
    /\ specFilesToRun = <<>>
    /\ cachedSpecFiles = <<>>
    /\ lintResult = NoLint
    /\ processes = <<>>
    /\ proc = [n \in Names |-> NoProc]
    /\ errorOutputs = [n \in Names |-> <<>>]
    /\ completed = 0
    /\ failed = FALSE
    /\ results = [n \in Names |-> "none"]
    /\ failureReasons = [n \in Names |-> <<>>]
    /\ killAttempts = {}
    /\ finalizations = 0
    /\ report = NoReport
    /\ exitCode = "none"

\* the run selects and spawns, the processes print and exit
NextPairing ==
    \/ \E dl \in BOOLEAN, dc \in BOOLEAN, cc \in BOOLEAN : RunSpawn(dl, dc, cc)
    \/ \E n \in Names : Data(n)
    \/ \E n \in Names, code \in {"0", "1"} : Close(n, code)

SpecPairing == InitPairing /\ [][NextPairing]_vars

(***************************************************************************)
(* Properties                                                              *)
(***************************************************************************)

\* the entry stored under key k as a one-element sequence, <<>> when there is none
EntryOf(c, k) == IF Has(c, k) THEN <<c[k]>> ELSE <<>>

\* the persisted mapping, as a run started now would load it
Persisted == loadCache(cacheFile)

\* this step is the close event of process n with a nonzero exit code
ExitsNonzero(n) ==
    /\ proc[n].state \in {"running", "killed"}
    /\ proc'[n].state = "closed"
    /\ proc'[n].code # "0"

\* the bare-path and 'source:' keys of the attempted spec files
SpecKeys == Range(specFilesToRun)
              \cup {SourceKey(sourceFileOf(f)) : f \in Range(specFilesToRun)}

\* the keys the run attempts: 'lint:' keys of lint toRun, bare and 'source:' keys
\* of test toRun
AttemptedKeys == SpecKeys \cup {LintKey(f) : f \in Range(lintResult.toRun)}

\* the handler of this step attempted a cache write that failed (the warning of
\* line 163 was printed): the cache file is as it was, or cut short
SaveFailed == pc = "running" /\ warnings' # warnings

\* no cache write of the run has failed so far
NoSaveFailed == "save" \notin Range(warnings)

\* the hashes getFileHash can have returned for file f in the handler of this
\* step: the hash of the content f has, or, where the lint tool rewrote f while
\* the handler read file after file, the hash of a content f had in between
HashesRead(f) ==
    IF fixes' = fixes \/ f \notin fixable(fs) THEN {getFileHash(fs, f)}
    ELSE IF fixes' = fixes + 1 THEN {getFileHash(fs, f), getFileHash(fs', f)}
    ELSE {Md5(c) : c \in Contents}

\* this step leaves the entry of key k as it was, in memory and on disk
EntryKept(k) ==
    /\ EntryOf(cache', k) = EntryOf(cache, k)
    /\ EntryOf(loadCache(cacheFile'), k) = EntryOf(loadCache(cacheFile), k)

\* the accumulated test output is in progress: 'Building' seen, no summary line
TestOutputInProgress ==
    /\ TextIncludes(errorOutputs["Test"], P_BUILDING)
    /\ summaryMatch(errorOutputs["Test"]) = <<>>

\* C1 as stated: a test process that exits nonzero with output that contains
\* 'Building' and no 'TOTAL: n FAILED, m SUCCESS' line writes no bare-path and no
\* 'source:' entry of an attempted spec file.  Refuted: compiler diagnostics in
\* such output are cached.
C1_NoCachingOnInProgressOutput ==
    [][(ExitsNonzero("Test") /\ TestOutputInProgress)
          => \A k \in SpecKeys : EntryKept(k)]_vars

\* C1 amended: a test process that exits nonzero with output that contains
\* 'Building', no summary line and no compiler-diagnostic marker performs no cache
\* write at all: the in-memory cache and the persisted cache stay as they were.
C1_NoCachingOnIncompleteOutput ==
    [][(ExitsNonzero("Test") /\ TestOutputInProgress
            /\ ~hasCompilationError(errorOutputs["Test"]))
          => (cache' = cache /\ cacheFile' = cacheFile)]_vars

\* C1 witness: a test process given spec files has exited nonzero on in-progress
\* output without compiler diagnostics, over a persisted cache
C1_Witness ==
    /\ results["Test"] = "FAILED"
    /\ Len(specFilesToRun) > 0
    /\ TestOutputInProgress
    /\ ~hasCompilationError(errorOutputs["Test"])
    /\ Len(errorOutputs["Test"]) > 1
    /\ cacheFile.present

\* C2 as stated: a test process that exits nonzero with empty or whitespace-only
\* output leaves the cache as it was.  Refuted: the fallback text 'Process exited
\* with code ...' is taken as a failure reason and every attempted file is cached
\* as failed.
C2_EmptyOutputNeverCached ==
    [][(ExitsNonzero("Test") /\ TrimText(errorOutputs["Test"]) = <<>>)
          => (cache' = cache /\ cacheFile' = cacheFile)]_vars

\* C3 as stated: when the lint process exits nonzero while the test process is
\* running, the test process is terminated.  Refuted on POSIX: the group signal
\* reaches no process and the test process keeps running.
C3_TestTerminatedOnLintFailure ==
    [][(ExitsNonzero("Lint") /\ proc["Test"].state = "running")
          => proc'["Test"].state = "killed"]_vars

\* C4: finalization fires at most once, only when every tracked process has
\* reported exit, and it has fired once all of them have
C4_FinalizesExactlyOnce ==
    /\ finalizations <= 1
    /\ finalizations = 1 => \A n \in Range(processes) : proc[n].state = "closed"
    /\ (processes # <<>> /\ \A n \in Range(processes) : proc[n].state = "closed")
          => finalizations = 1

\* C4 witness: two processes were launched, one failed, the other was sent a
\* termination attempt, and the run has finalized
C4_Witness ==
    /\ Len(processes) = 2
    /\ finalizations = 1
    /\ killAttempts # {}
    /\ \E n \in Names : results[n] = "FAILED"

\* the selections of a rerun with the cache enabled and the same --disable-lint:
\* nothing to run, every candidate cached
RerunAllCached ==
    LET p == Plan(disableLint, FALSE, cacheFile)
    IN  /\ p.toRun = <<>>
        /\ p.lint.toRun = <<>>
        /\ p.cached = existingSpecFiles(changes, fs)
        /\ disableLint \/ p.lint.cached = allFilesToLint(changes, Len(changes))

\* C5 as stated, for the runs it most plainly covers: after a run in which every
\* launched process exited 0, no cache write failed and no file was rewritten,
\* a rerun with the cache enabled over the same change list and file contents has
\* nothing to run and every candidate cached.  Refuted: a deleted file of the
\* change list is a lint candidate that never gets an entry, so it is in lint toRun
\* on every run.
C5_RerunIsIdempotent ==
    (/\ pc = "done"
     /\ \A n \in Range(processes) : proc[n].code = "0"
     /\ fixes = 0
     /\ warnings = <<>>)
       => RerunAllCached

\* C6: the exit code of a finished run is 1 exactly when a launched process
\* exited nonzero, and 0 otherwise (also when nothing was launched)
C6_ExitCode ==
    pc = "done" =>
        exitCode = (IF \E n \in Range(processes) : proc[n].code # "0" THEN "1" ELSE "0")

\* C6 witness: of two launched processes one exited 0 and the other did not, and
\* the run has ended with exit code 1
C6_Witness ==
    /\ pc = "done"
    /\ exitCode = "1"
    /\ \E n \in Names : results[n] = "PASSED"
    /\ \E n \in Names : results[n] = "FAILED"

\* the path of file f occurs in the accumulated test output
NamedInTestOutput(f) == TextIncludes(errorOutputs["Test"], f)

\* C7 as stated: on a compiler-diagnostic test failure an attempted spec file's
\* entry is written only if the output names it, and the bare-path and 'source:'
\* entries of an attempted file the output does not name stay as they were.
\* Refuted in a run that ignores the cache: the rewrite of the persisted cache, also
\* when it succeeds, drops the entries of the unnamed files.
C7_CompileFailureIsolation ==
    [][(ExitsNonzero("Test") /\ hasCompilationError(errorOutputs["Test"]) /\ ~SaveFailed)
          => \A f \in Range(specFilesToRun) :
                /\ EntryOf(cache', f) # EntryOf(cache, f) => NamedInTestOutput(f)
                /\ ~NamedInTestOutput(f)
                      => EntryKept(f) /\ EntryKept(SourceKey(sourceFileOf(f)))]_vars

\* C8 as stated: no step of a run that ignores the cache removes or changes a
\* persisted entry of a key the run does not attempt, also when every cache write
\* succeeds.  Refuted: the persisted cache is overwritten with a mapping that
\* started empty.
C8_DisableCacheKeepsPersistedEntries ==
    [][(disableCache' /\ ~SaveFailed)
          => \A k \in DOMAIN loadCache(cacheFile) :
                k \notin AttemptedKeys'
                   => EntryOf(loadCache(cacheFile'), k) = EntryOf(loadCache(cacheFile), k)]_vars

\* C9: at the start of a run an existing spec candidate is selected to run exactly
\* when it has no bare-path entry or its stored hash differs from its current hash,
\* or its companion source exists and has no 'source:' entry or a differing hash
C9_ShouldRun ==
    [][(pc = "start" /\ pc' # "start")
          => \A f \in Range(existingSpecFiles(changes, fs)) :
                (f \in Range(specFilesToRun'))
                   <=> \/ EntryOf(cache', f) = <<>>
                       \/ cache'[f].hash # getFileHash(fs, f)
                       \/ /\ FileExists(fs, sourceFileOf(f))
                          /\ \/ EntryOf(cache', SourceKey(sourceFileOf(f))) = <<>>
                             \/ cache'[SourceKey(sourceFileOf(f))].hash
                                   # getFileHash(fs, sourceFileOf(f))]_vars

\* C9 witness: a.ts was changed, a.spec.ts is cached with its current hash, and
\* the run has selected a.spec.ts
C9_Witness ==
    /\ pc = "running"
    /\ completed = 0
    /\ fixes = 0
    /\ A_SPEC \in Range(specFilesToRun)
    /\ Has(cache, A_SPEC) /\ cache[A_SPEC].hash = getFileHash(fs, A_SPEC)
    /\ Has(cache, SourceKey(A_TS)) /\ cache[SourceKey(A_TS)].hash # getFileHash(fs, A_TS)

\* every spec candidate is a cache hit and there is at least one
AllSpecsHit ==
    /\ pc = "start"
    /\ existingSpecFiles(changes, fs) # <<>>
    /\ getSpecFiles(changes, Persisted, fs).toRun = <<>>

\* this step changes the content of file f and of no other file, before the run
Edits(f) ==
    /\ pc' = "start"
    /\ fs'[f] # fs[f]
    /\ \A g \in Files \ {f} : fs'[g] = fs[g]

\* the test toRun selection of a run started after this step
NextToRun == getSpecFiles(changes, loadCache(cacheFile'), fs').toRun

\* C10 as stated: from a state where every candidate is a cache hit, changing one
\* spec candidate selects exactly that file, and changing the companion source of
\* a candidate selects exactly that candidate.  Refuted: a spec file that is the
\* companion of another candidate selects both.
C10_HashSensitivity ==
    [][\A f \in Files :
          (AllSpecsHit /\ Edits(f))
             => /\ f \in Range(existingSpecFiles(changes, fs)) => NextToRun = <<f>>
                /\ \A g \in Range(existingSpecFiles(changes, fs)) :
                      (f = sourceFileOf(g) /\ f \notin Range(existingSpecFiles(changes, fs)))
                         => NextToRun = <<g>>]_vars

\* C10 amended: from a state where every candidate is a cache hit, changing the
\* content of one file selects exactly the candidates that are that file or have
\* it as their companion source
C10_HashSensitivityWithCompanions ==
    [][\A f \in Files :
          (AllSpecsHit /\ Edits(f))
             => Range(NextToRun) = {g \in Range(existingSpecFiles(changes, fs)) :
                                       g = f \/ sourceFileOf(g) = f}]_vars

\* C10 witness: with a.spec.ts and a.spec.spec.ts both cached on their contents,
\* a.spec.ts was changed and the next selection holds both files
C10_Witness ==
    /\ pc = "start"
    /\ edits = 1
    /\ Has(Persisted, A_SPEC) /\ Persisted[A_SPEC].hash = Md5("v1")
    /\ getFileHash(fs, A_SPEC) = Md5("v2")
    /\ Has(Persisted, A_SPEC2) /\ Persisted[A_SPEC2].hash = getFileHash(fs, A_SPEC2)
    /\ getSpecFiles(changes, Persisted, fs).toRun = <<A_SPEC, A_SPEC2>>

\* the files of a list of { file, error } records of a report
ReportedFiles(list) == {list[i].file : i \in 1..Len(list)}

\* the lint candidates of the change list
LintCandidates == Range(allFilesToLint(changes, Len(changes)))

\* this step starts a run: the selections are made
StartsRun == pc = "start" /\ pc' # "start"

\* this step ends a run: the report is emitted
Reports == pc # "done" /\ pc' = "done"

\* before the run the persisted 'lint:' entry of f is failed and holds the hash of
\* the present content of f
LintFailedUnchanged(f) ==
    /\ Has(loadCache(cacheFile'), LintKey(f))
    /\ loadCache(cacheFile')[LintKey(f)].status = "failed"
    /\ loadCache(cacheFile')[LintKey(f)].timestamp = EarlierStamp
    /\ loadCache(cacheFile')[LintKey(f)].hash = getFileHash(fs, f)

\* C11: a lint candidate is in lint toRun exactly when the cache the run uses has
\* no 'lint:' entry for it or holds another hash than its current one, whatever the
\* status of the entry, and is in cached otherwise; a candidate whose entry is
\* failed on its present content when the run starts is selected as cached, not
\* run, and a candidate selected as cached whose entry is failed is reported among
\* the cached-failing lint files
C11_LintCacheIsContentOnly ==
    [][/\ (StartsRun /\ ~disableLint')
            => \A f \in LintCandidates :
                  /\ (f \in Range(lintResult'.toRun))
                        <=> \/ EntryOf(cache', LintKey(f)) = <<>>
                            \/ cache'[LintKey(f)].hash # getFileHash(fs, f)
                  /\ (f \in Range(lintResult'.cached))
                        <=> (f \notin Range(lintResult'.toRun))
                  /\ (~disableCache' /\ LintFailedUnchanged(f))
                        => /\ f \in Range(lintResult'.cached)
                           /\ f \notin Range(lintResult'.toRun)
       /\ (Reports /\ ~disableLint' /\ ~disableCache')
            => \A f \in Range(lintResult'.cached) :
                  (Has(cache', LintKey(f)) /\ cache'[LintKey(f)].status = "failed")
                     => /\ f \notin Range(lintResult'.toRun)
                        /\ f \in ReportedFiles(report'.lintFailed)]_vars

\* C11 witness: a run that launched lint and test for a changed file has ended and
\* reported another lint file, failed earlier and unchanged, as cached-failing
C11_Witness ==
    /\ pc = "done"
    /\ report.kind = "results"
    /\ Len(processes) = 2
    /\ \E f \in LintCandidates :
          /\ f \in ReportedFiles(report.lintFailed)
          /\ f \notin Range(lintResult.toRun)
          /\ cache[LintKey(f)].status = "failed"
          /\ cache[LintKey(f)].hash = getFileHash(fs, f)

\* this step is the close event of process n with exit code 0
ExitsZero(n) ==
    /\ proc[n].state = "running"
    /\ proc'[n].state = "closed"
    /\ proc'[n].code = "0"

\* after this step key k holds a passed entry with hash h, in memory, and on disk
\* unless the cache write of the step failed
PassedWith(k, h) ==
    /\ Has(cache', k) /\ cache'[k].status = "passed" /\ cache'[k].hash = h
    /\ ~SaveFailed => EntryOf(loadCache(cacheFile'), k) = EntryOf(cache', k)

\* the paths of the change list
ChangedFiles == [i \in 1..Len(changes) |-> changes[i].file]

\* the selections of the end-to-end case: an empty cache and one changed source
\* file whose spec file exists
EndToEndSelection ==
    (/\ StartsRun /\ ~disableLint' /\ cache' = EmptyCache
     /\ ChangedFiles = <<A_TS>> /\ FileExists(fs, A_SPEC))
       => (lintResult'.toRun = <<A_TS>> /\ specFilesToRun' = <<A_SPEC>>)

\* C12 as stated: a lint process that exits 0 sets the 'lint:' entry of every
\* attempted lint file to passed with its current hash; a test process that exits 0
\* sets the bare-path entry of every attempted spec file to passed with its current
\* hash and the 'source:' entry of an existing companion source to passed with its
\* current hash (the hash read by the handler; on disk too when the write did not
\* fail); an empty cache and a changed a.ts with an existing a.spec.ts select
\* lint toRun = [a.ts] and test toRun = [a.spec.ts].  Refuted: a deleted file of the
\* change list is an attempted lint file, and it gets no entry.
C12_PassedWriteBack ==
    [][/\ ExitsZero("Lint")
            => \A f \in Range(lintResult.toRun) :
                  \E h \in HashesRead(f) : PassedWith(LintKey(f), h)
       /\ ExitsZero("Test")
            => \A f \in Range(specFilesToRun) :
                  /\ \E h \in HashesRead(f) : PassedWith(f, h)
                  /\ FileExists(fs, sourceFileOf(f))
                        => \E h \in HashesRead(sourceFileOf(f)) :
                              PassedWith(SourceKey(sourceFileOf(f)), h)
       /\ EndToEndSelection]_vars

\* after this step the 'lint:' entry of f has this status and the current hash of f
LintEntryIs(f, status) ==
    /\ Has(cache', LintKey(f))
    /\ cache'[LintKey(f)].status = status
    /\ cache'[LintKey(f)].hash = getFileHash(fs, f)

\* C13 as stated: when the lint process exits nonzero, every readable attempted
\* lint file whose path occurs in the lint output gets a failed entry and every
\* other readable attempted lint file a passed entry.  Refuted: a path is only
\* extracted from the output when it ends in .ts, so a template (.html) the output
\* names is cached as passed.
C13_LintFailureSplit ==
    [][ExitsNonzero("Lint")
          => \A f \in Range(lintResult.toRun) :
                getFileHash(fs, f) # Null
                   => IF TextIncludes(errorOutputs["Lint"], f)
                      THEN LintEntryIs(f, "failed")
                      ELSE LintEntryIs(f, "passed")]_vars

\* this step closes the test process with an ordinary, cacheable failure: a nonzero
\* exit, no compiler-diagnostic marker in the output, and a failure text that is
\* not the incomplete/interrupted one
OrdinaryTestFailure ==
    /\ ExitsNonzero("Test")
    /\ ~hasCompilationError(errorOutputs["Test"])
    /\ ~TextIncludes(failureReasons'["Test"], P_INCOMPLETE)

\* C14: an ordinary cacheable test failure writes, for every attempted spec file
\* that is readable, a failed entry with the hash the handler read for the file and
\* the failure text filtered for that file, whether or not the output names the
\* file: in memory, and on disk unless the cache write of the handler failed
C14_OrdinaryFailureCachesAll ==
    [][OrdinaryTestFailure
          => \A f \in Range(specFilesToRun) :
                getFileHash(fs, f) # Null
                   => /\ \E h \in HashesRead(f) :
                            EntryOf(cache', f)
                               = <<Entry(h, "failed", RunStamp,
                                         filterErrorsByFile(failureReasons'["Test"], f))>>
                      /\ ~SaveFailed
                            => EntryOf(loadCache(cacheFile'), f) = EntryOf(cache', f)]_vars

\* C14 witness: a test process given two spec files has failed with a summary line
\* and a failure that names one of them, and both files hold a failed entry of
\* this run, in memory and in the cache file
C14_Witness ==
    /\ results["Test"] = "FAILED"
    /\ summaryMatch(errorOutputs["Test"]) # <<>>
    /\ ~hasCompilationError(errorOutputs["Test"])
    /\ \E f, g \in Range(specFilesToRun) :
          /\ TextIncludes(errorOutputs["Test"], f)
          /\ ~TextIncludes(errorOutputs["Test"], g)
          /\ \A h \in {f, g} :
                /\ Has(cache, h)
                /\ cache[h].status = "failed"
                /\ cache[h].timestamp = RunStamp
                /\ cache[h].error # NoError
                /\ EntryOf(Persisted, h) = EntryOf(cache, h)

\* C15: a run whose selections leave nothing to lint and nothing to test spawns no
\* process, writes nothing to the cache file (the file is as it was, or removed by
\* --clear-cache before the selection) and leaves the in-memory mapping as it was
\* loaded, never enters the finalization of a process run, ends with exit code 0,
\* and reports "all cached" when a cached spec or lint file exists and "nothing to
\* do" otherwise; any other run spawns a process
C15_NothingToLaunch ==
    [][StartsRun
          => IF ~lintResult'.command /\ Len(specFilesToRun') = 0
             THEN /\ processes' = <<>>
                  /\ \A n \in Names : proc'[n].state = "none"
                  /\ cacheFile' \in {cacheFile, NoCacheFile}
                  /\ cache' = (IF disableCache' THEN EmptyCache ELSE loadCache(cacheFile'))
                  /\ finalizations' = 0
                  /\ pc' = "done" /\ exitCode' = "0"
                  /\ report'.kind
                        = (IF Len(cachedSpecFiles') > 0 \/ Len(lintResult'.cached) > 0
                           THEN "all-cached" ELSE "nothing")
             ELSE /\ processes' # <<>>
                  /\ pc' = "running"
                  /\ report'.kind = "none"]_vars

\* C15 witness: a run found every candidate cached, some of them failing, and has
\* ended with the fully-cached report without a process or a finalization
C15_Witness ==
    /\ pc = "done"
    /\ report.kind = "all-cached"
    /\ processes = <<>>
    /\ finalizations = 0
    /\ Len(cachedSpecFiles) > 0 /\ Len(lintResult.cached) > 0
    /\ report.testFailed # <<>>
    /\ cacheFile.present

\* the path a status line names: what follows its two status characters, trimmed
PathOf(line) == TrimLine(SubSeq(line, 3, Len(line)))

\* the lines of the query's output that are not empty and name a path
RecordLines ==
    FilterIdx(statusOutput.stdout,
              {i \in 1..Len(statusOutput.stdout) :
                  Len(statusOutput.stdout[i]) > 0 /\ PathOf(statusOutput.stdout[i]) # <<>>},
              1)

\* the change type that belongs to a first status character
TypeOfFirst(x) ==
    IF x = "A" THEN "added"
    ELSE IF x = "D" THEN "deleted"
    ELSE IF x = "R" THEN "renamed"
    ELSE IF x = "?" THEN "untracked"
    ELSE "modified"

\* C17 as stated: the change list holds one record per non-empty status line that
\* names a path, in the order of the lines, and the type of each record is the one
\* that belongs to the first status character of its line.  Refuted: the output is
\* trimmed as a whole, so a first line that starts with a blank status character
\* is read one character off and typed by its second status character.
C17_ChangeRecords ==
    ~statusOutput.failed
       => /\ Len(changes) = Len(RecordLines)
          /\ \A i \in 1..Len(RecordLines) :
                i <= Len(changes)
                   => /\ changes[i].file = PathOf(RecordLines[i])
                      /\ changes[i].type = TypeOfFirst(RecordLines[i][1])

\* the cache file holds no mapping: it is absent or its text is not that of one
NoMappingOnDisk == ~cacheFile.present \/ cacheFile.json # "object"

\* C16 as stated: a failed status query gives an empty change list, and a run that
\* finds no cache file, or one that does not hold a mapping, goes on as a run over
\* the empty mapping does: it makes the selections of the empty mapping and no
\* exception ends it.  Refuted: a cache file that holds the JSON text null is
\* loaded as null, and the first read of an entry throws.
C16_EnvironmentErrorsRecovered ==
    [][/\ statusOutput.failed => changes = <<>>
       /\ (StartsRun /\ ~disableCache' /\ NoMappingOnDisk)
            => /\ pc' \in {"running", "done"}
               /\ cache' = EmptyCache
               /\ specFilesToRun' = getSpecFiles(changes, EmptyCache, fs).toRun
               /\ ~disableLint'
                     => lintResult' = generateLintCommand(changes, EmptyCache, fs)]_vars

\* the run has ended after its test process failed with an ordinary, cacheable
\* failure, and no file was rewritten while it ran
EndedInOrdinaryTestFailure ==
    /\ pc = "done"
    /\ results["Test"] = "FAILED"
    /\ ~hasCompilationError(errorOutputs["Test"])
    /\ ~TextIncludes(failureReasons["Test"], P_INCOMPLETE)
    /\ fixes = 0

\* the cached-failing tests a rerun with the cache enabled reports, should it have
\* nothing to launch or something
RerunTestFailed ==
    LET p == Plan(disableLint, FALSE, cacheFile)
    IN  Range(cacheStats(p.cache, "results", p.lint.cached, p.cached).testFailed)

\* the cache file holds the entries the run has in memory for spec file f and for
\* its companion source: the write that followed the failure, or a later write of
\* the run, did not fail
FailureReachedFile(f) ==
    \A k \in {f, SourceKey(sourceFileOf(f))} : EntryOf(Persisted, k) = EntryOf(cache, k)

\* C18 as stated: after a run whose test process failed with an ordinary cacheable
\* failure, a rerun with the cache enabled over the same file contents has every
\* readable spec file of that test process in cached and none in toRun, and reports
\* each among the cached-failing tests with the failure text stored for it.
\* Refuted: the cache write of the failing run can fail, and the rerun then
\* runs the files again.
C18_FailedTestsAreNotRetried ==
    EndedInOrdinaryTestFailure
       => \A f \in Range(specFilesToRun) :
             getFileHash(fs, f) # Null
                => /\ f \in Range(Plan(disableLint, FALSE, cacheFile).cached)
                   /\ f \notin Range(Plan(disableLint, FALSE, cacheFile).toRun)
                   /\ [file |-> f,
                       error |-> filterErrorsByFile(failureReasons["Test"], f)]
                         \in RerunTestFailed

\* C18 amended: after a run whose test process failed with an ordinary cacheable
\* failure, a rerun with the cache enabled over the same file contents has every
\* readable spec file of that test process whose entries reached the cache file in
\* cached and not in toRun, and reports it among the cached-failing tests with the
\* failure text stored for it
C18_PersistedFailuresAreNotRetried ==
    EndedInOrdinaryTestFailure
       => \A f \in Range(specFilesToRun) :
             (getFileHash(fs, f) # Null /\ FailureReachedFile(f))
                => /\ f \in Range(Plan(disableLint, FALSE, cacheFile).cached)
                   /\ f \notin Range(Plan(disableLint, FALSE, cacheFile).toRun)
                   /\ [file |-> f,
                       error |-> filterErrorsByFile(failureReasons["Test"], f)]
                         \in RerunTestFailed

\* C18 witness: a run has ended after an ordinary test failure whose output names
\* a spec file that has a companion source on disk, and a rerun would report that
\* file as cached-failing with a non-empty failure text
C18_Witness ==
    /\ EndedInOrdinaryTestFailure
    /\ summaryMatch(errorOutputs["Test"]) # <<>>
    /\ \E f \in Range(specFilesToRun) :
          /\ FileExists(fs, sourceFileOf(f))
          /\ TextIncludes(errorOutputs["Test"], f)
          /\ FailureReachedFile(f)
          /\ \E r \in RerunTestFailed : r.file = f /\ r.error # NoError

\* this step is the close event of process n after the run terminated it
ClosesKilled(n) == proc[n].state = "killed" /\ proc'[n].state = "closed"

\* C19 as stated: the close event of a lint process that was terminated because
\* the test process failed first writes no passed 'lint:' entry for a file the lint
\* process was given.  Refuted: the terminated process closes with a nonzero code,
\* and every readable file its output does not name is stored as passed.
C19_KilledLintCachesNoPass ==
    [][ClosesKilled("Lint")
          => \A f \in Range(lintResult.toRun) :
                ~(/\ Has(cache', LintKey(f))
                  /\ cache'[LintKey(f)].status = "passed"
                  /\ cache'[LintKey(f)].timestamp = RunStamp)]_vars

\* C20 as stated: the close event of a test process that was terminated because
\* the lint process failed first changes neither the cache in memory nor the cache
\* file, whatever output the process had printed.  Refuted: output without a
\* summary line and without the in-progress marker is taken for an ordinary
\* failure and every spec file of the process is stored as failed.
C20_KilledTestCachesNothing ==
    [][ClosesKilled("Test") => (cache' = cache /\ cacheFile' = cacheFile)]_vars

\* C21 as stated: a test process that exits nonzero with a summary line in its
\* output is an ordinary failure, and every readable spec file it was given gets a
\* failed entry of this run with its current hash, compiler-diagnostic markers in
\* the output or not.  Refuted: the caching branch tests the markers by itself,
\* whether or not a summary line was found, and then stores only the files the
\* output names.
C21_SummaryMakesFailureOrdinary ==
    [][(ExitsNonzero("Test") /\ summaryMatch(TrimText(errorOutputs["Test"])) # <<>>)
          => \A f \in Range(specFilesToRun) :
                getFileHash(fs, f) # Null
                   => /\ Has(cache', f)
                      /\ cache'[f].status = "failed"
                      /\ cache'[f].timestamp = RunStamp
                      /\ cache'[f].hash = getFileHash(fs, f)]_vars

\* this step is a close event of the test process
TestCloses == proc["Test"].state \in {"running", "killed"} /\ proc'["Test"].state = "closed"

\* C22 as stated: an entry the close event of the test process writes, for a spec
\* file it was given or for the companion source of one, holds the hash of the
\* content the file had when the process was launched.  Refuted: the hash is taken
\* when the process has ended, from the file as the lint tool has rewritten it
\* in the meantime.
C22_VerdictOnEvaluatedContent ==
    [][TestCloses
          => \A f \in Range(specFilesToRun) :
                /\ EntryOf(cache', f) # EntryOf(cache, f)
                      => cache'[f].hash = getFileHash(launchedOn, f)
                /\ EntryOf(cache', SourceKey(sourceFileOf(f)))
                        # EntryOf(cache, SourceKey(sourceFileOf(f)))
                      => cache'[SourceKey(sourceFileOf(f))].hash
                            = getFileHash(launchedOn, sourceFileOf(f))]_vars

\* the keys that hold an entry before or after this step, in memory or on disk
KeysInUse ==
    DOMAIN cache \cup DOMAIN cache' \cup DOMAIN Persisted \cup DOMAIN loadCache(cacheFile')

\* C23 as stated: with the cache enabled the run starts from the entries of the
\* cache file (none when --clear-cache removed the file), every step of the run
\* leaves the entry of every key it did not attempt as it was, in memory and on
\* disk, and when the last process has completed the cache file holds exactly the
\* in-memory cache, so the updates of both handlers in whichever order they ran.
\* Refuted: a cache write can fail, and the cache file then lacks the updates.
C23_OnlyAttemptedKeysChange ==
    [][~disableCache'
          => /\ StartsRun => /\ cacheFile' \in {cacheFile, NoCacheFile}
                             /\ cache' = loadCache(cacheFile')
             /\ pc = "running"
                   => \A k \in KeysInUse \ AttemptedKeys : EntryKept(k)
             /\ (pc = "running" /\ Reports) => loadCache(cacheFile') = cache']_vars

\* C23 amended: with the cache enabled the run starts from the entries of the cache
\* file; every step of the run leaves the entry of every key it did not attempt as
\* it was in memory, and on disk as long as no failed write has left the cache file
\* cut short; a handler whose cache write succeeds leaves the cache file holding
\* exactly the in-memory cache, so the updates of every handler before it; a write
\* that fails leaves the file as it was or cut short; and when the last process has
\* completed and no write of the run has failed the cache file holds the updates
\* of both handlers, in whichever order they ran
C23_UpdatesReachFileUnlessWriteFails ==
    [][~disableCache'
          => /\ StartsRun => /\ cacheFile' \in {cacheFile, NoCacheFile}
                             /\ cache' = loadCache(cacheFile')
             /\ pc = "running"
                   => /\ \A k \in KeysInUse \ AttemptedKeys :
                            /\ EntryOf(cache', k) = EntryOf(cache, k)
                            /\ GarbageCacheFile \notin {cacheFile, cacheFile'}
                                  => EntryKept(k)
                      /\ (cacheFile' # cacheFile /\ ~SaveFailed)
                            => loadCache(cacheFile') = cache'
                      /\ SaveFailed => cacheFile' \in {cacheFile, GarbageCacheFile}
             /\ (pc = "running" /\ Reports /\ "save" \notin Range(warnings'))
                   => loadCache(cacheFile') = cache']_vars

\* C23 witness: a run with the cache enabled has ended after lint and test both
\* completed; the cache file holds an entry of this run for a lint key and for a
\* test key, and an entry of the earlier run for a key the run did not attempt
C23_Witness ==
    /\ pc = "done"
    /\ ~disableCache
    /\ Len(processes) = 2
    /\ \E f \in Range(lintResult.toRun) :
          /\ Has(Persisted, LintKey(f))
          /\ Persisted[LintKey(f)].timestamp = RunStamp
    /\ \E f \in Range(specFilesToRun) :
          Has(Persisted, f) /\ Persisted[f].timestamp = RunStamp
    /\ \E k \in DOMAIN Persisted \ AttemptedKeys :
          Persisted[k].timestamp = EarlierStamp
    /\ NoSaveFailed

\* C24: the close event of a process that exited with code 0 attempts no
\* termination and leaves every other tracked process as it was, so a sibling that
\* is still running keeps running
C24_SuccessStopsNothing ==
    [][\A n \in Names :
          ExitsZero(n)
             => /\ killAttempts' = killAttempts
                /\ \A m \in Names \ {n} : proc'[m] = proc[m]]_vars

\* C24 witness: one of two launched processes has exited with code 0 while the
\* other is still running, and no termination has been attempted
C24_Witness ==
    /\ Len(processes) = 2
    /\ \E n \in Names :
          /\ proc[n].state = "closed" /\ proc[n].code = "0"
          /\ \E m \in Names \ {n} : proc[m].state = "running"
    /\ killAttempts = {}

\* C25 as stated: once the run has loaded its cache and while no cache write has
\* failed, the mapping in the cache file equals the in-memory mapping in every
\* state between completion handlers.  Refuted: with --disable-cache the in-memory
\* mapping starts empty while the cache file keeps its entries until the first
\* handler writes.
C25_PersistedEqualsInMemory ==
    (pc \in {"running", "done"} /\ NoSaveFailed) => loadCache(cacheFile) = cache

\* C25 amended: a completion handler that changes the in-memory mapping and whose
\* cache write does not fail leaves the cache file holding exactly that mapping,
\* and in a run with the cache enabled the cache file holds the in-memory mapping
\* from the load to the end of the run, as long as no write failed
C25_MutationsArePersisted ==
    [][/\ (pc = "running" /\ cache' # cache /\ ~SaveFailed)
             => loadCache(cacheFile') = cache'
       /\ (pc' \in {"running", "done"} /\ ~disableCache' /\ "save" \notin Range(warnings'))
             => loadCache(cacheFile') = cache']_vars

\* C25 witness: with the cache enabled and entries of an earlier run loaded, one
\* handler has written entries of this run while the other process is still
\* running, and the cache file holds the in-memory mapping
C25_Witness ==
    /\ pc = "running"
    /\ ~disableCache
    /\ \E n \in Names : proc[n].state = "closed"
    /\ \E k \in DOMAIN cache : cache[k].timestamp = RunStamp
    /\ \E k \in DOMAIN cache : cache[k].timestamp = EarlierStamp
    /\ NoSaveFailed
    /\ loadCache(cacheFile) = cache

\* toRun and cached split the candidates: each is the candidates it holds in
\* candidate order, each holds no path twice, and every candidate is in exactly one
Splits(candidates, toRun, cached) ==
    /\ toRun = FilterIdx(candidates,
                         {i \in 1..Len(candidates) : candidates[i] \in Range(toRun)}, 1)
    /\ cached = FilterIdx(candidates,
                          {i \in 1..Len(candidates) : candidates[i] \in Range(cached)}, 1)
    /\ Cardinality(Range(toRun)) = Len(toRun)
    /\ Cardinality(Range(cached)) = Len(cached)
    /\ Range(toRun) \cap Range(cached) = {}
    /\ Range(toRun) \cup Range(cached) = Range(candidates)

\* the changed paths that are spec files, and the spec files of the changed source
\* files, each once, in the order of the change list
RECURSIVE SpecCandidates(_)
SpecCandidates(i) ==
    IF i = 0 THEN <<>>
    ELSE LET file == changes[i].file
             spec == IF EndsWith(file, DOT_SPEC_TS) THEN <<file>>
                     ELSE IF EndsWith(file, DOT_TS) THEN <<specFileOf(file)>>
                     ELSE <<>>
             before == SpecCandidates(i - 1)
         IN  IF spec # <<>> /\ spec[1] \notin Range(before) THEN before \o spec
             ELSE before

\* the spec candidates that exist on disk
ExistingSpecCandidates ==
    LET c == SpecCandidates(Len(changes))
    IN  FilterIdx(c, {i \in 1..Len(c) : FileExists(fs, c[i])}, 1)

\* the changed paths with a lint extension, each once, in the order of the change
\* list
RECURSIVE LintCandidateList(_)
LintCandidateList(i) ==
    IF i = 0 THEN <<>>
    ELSE LET file == changes[i].file
             before == LintCandidateList(i - 1)
         IN  IF (EndsWith(file, DOT_TS) \/ EndsWith(file, DOT_HTML))
                   /\ file \notin Range(before)
             THEN Append(before, file)
             ELSE before

\* C26: the selections a run makes split the candidates of each track: test toRun
\* and cached split the spec candidates that exist on disk, lint toRun and cached
\* split the changed files with a lint extension, in candidate order and without a
\* path occurring twice
C26_SelectionsSplitCandidates ==
    [][StartsRun
          => /\ Splits(ExistingSpecCandidates, specFilesToRun', cachedSpecFiles')
             /\ ~disableLint'
                   => Splits(LintCandidateList(Len(changes)), lintResult'.toRun,
                             lintResult'.cached)]_vars

\* C26 witness: a source file and its own spec file are both in the change list,
\* so the spec file is a candidate twice over, and a run has selected it once; a
\* lint candidate is in toRun and another in cached
C26_Witness ==
    /\ pc # "start"
    /\ \E i, j \in 1..Len(changes) :
          /\ i # j
          /\ ~EndsWith(changes[i].file, DOT_SPEC_TS)
          /\ specFileOf(changes[i].file) = changes[j].file
          /\ changes[j].file \in Range(specFilesToRun) \cup Range(cachedSpecFiles)
    /\ lintResult.toRun # <<>>
    /\ lintResult.cached # <<>>

\* C27 as stated: every file in lint toRun exists on disk, and a finished run
\* leaves no file that is missing from disk to be selected for lint again by a
\* rerun.  Refuted: the lint candidates are not filtered by existence, and a file
\* that cannot be read never gets the entry that would take it out of toRun.
C27_LintToRunExists ==
    /\ \A f \in Range(lintResult.toRun) : FileExists(fs, f)
    /\ pc = "done"
          => \A f \in Range(Plan(disableLint, FALSE, cacheFile).lint.toRun) : FileExists(fs, f)

\* the first line of a failure text that holds 'TOTAL:', as a list of at most one
TotalLine(text) ==
    LET totals == {i \in 1..Len(text) : Includes(text[i], P_TOTAL)}
    IN  IF totals = {} THEN <<>>
        ELSE <<text[CHOOSE i \in totals : \A j \in totals : i <= j]>>

\* the lines of the failure text the block walk retains for a file
BlockLines(text, f) == filterLoop(text, f, 1, FALSE)

\* line i of the text opens a failure block
IsFailureMarker(text, i) == Includes(text[i], P_FAILED) /\ Includes(text[i], P_CHROME)

\* the failure block that line i opens is attributed to f: a line after it, inside
\* the look-ahead window and before the next marker or progress line, names f
Attributed(text, f, i) ==
    \E j \in (i + 1)..Min(i + 14, Len(text)) :
       /\ Includes(text[j], f)
       /\ \A k \in (i + 1)..(j - 1) :
             ~(Includes(text[k], P_CHROME)
                 /\ (Includes(text[k], P_FAILED) \/ Includes(text[k], P_EXECUTED)))

\* the line names a spec file other than f
NamesOtherSpec(line, f) ==
    \E g \in Files \ {f} : EndsWith(g, DOT_SPEC_TS) /\ Includes(line, g)

\* the failure text stored for f by this step
StoredError(f) == cache'[f].error

\* C28 as stated: the text stored for a spec file after an ordinary test failure
\* starts with the aggregate line when the failure text has one and a block was
\* retained; the block markers retained are those of the blocks attributed to the
\* file; and when a block was retained no line of the stored text names another
\* spec file.  Refuted by the fallback of C29: a text without aggregate line of
\* which one line was retained is stored whole.
C28_ExcerptIsOfTheFile ==
    [][OrdinaryTestFailure
          => \A f \in Range(specFilesToRun) :
                LET text == failureReasons'["Test"]
                    blocks == BlockLines(text, f)
                IN  /\ (blocks # <<>> /\ TotalLine(text) # <<>>)
                          => StoredError(f)[1] = TotalLine(text)[1]
                    /\ FilterIdx(blocks, {i \in 1..Len(blocks) :
                                             IsFailureMarker(blocks, i)}, 1)
                         = FilterIdx(text, {i \in 1..Len(text) :
                                               /\ IsFailureMarker(text, i)
                                               /\ Attributed(text, f, i)}, 1)
                    /\ blocks # <<>>
                          => \A i \in 1..Len(StoredError(f)) :
                                ~NamesOtherSpec(StoredError(f)[i], f)]_vars

\* C29 as stated: the text stored for a spec file after an ordinary test failure is
\* the whole failure text when the block walk retained nothing for the file, and
\* otherwise the aggregate line, if any, followed by the retained lines.  Refuted:
\* a single retained line without an aggregate line also gives the whole text.
C29_FallbackOnlyWhenNothingRetained ==
    [][OrdinaryTestFailure
          => \A f \in Range(specFilesToRun) :
                LET text == failureReasons'["Test"]
                    blocks == BlockLines(text, f)
                IN  StoredError(f) = IF blocks = <<>> THEN text
                                     ELSE TotalLine(text) \o blocks]_vars

\* the path p with its trailing '.ts' replaced by '.spec.ts'
TrailingSpec(p) == SubSeq(p, 1, Len(p) - 1) \o DOT_SPEC_TS

\* the path q with its trailing '.spec.ts' replaced by '.ts'
TrailingSource(q) == SubSeq(q, 1, Len(q) - 2) \o DOT_TS

\* the position of the first occurrence of pat in the path p that holds it
FirstAt(p, pat) ==
    CHOOSE i \in 1..Len(p) : MatchAt(p, pat, i) /\ \A j \in 1..(i - 1) : ~MatchAt(p, pat, j)

\* the path p with its first occurrence of old replaced by new
FirstReplaced(p, old, new) ==
    LET i == FirstAt(p, old)
    IN  SubSeq(p, 1, i - 1) \o new \o SubSeq(p, i + Len(old), Len(p))

\* the spec files a run selects or serves from the cache
SelectedSpecs == Range(specFilesToRun') \cup Range(cachedSpecFiles')

\* the spec candidates of the change list when counterpart(p) is the test file of
\* the changed source file p: the changed spec files and the counterparts of the
\* changed '.ts' files, those that exist
CandidatesBy(counterpart(_)) ==
    { c \in { IF EndsWith(changes[i].file, DOT_SPEC_TS) THEN changes[i].file
               ELSE counterpart(changes[i].file) :
               i \in { k \in 1..Len(changes) : EndsWith(changes[k].file, DOT_TS) } } :
        FileExists(fs, c) }

\* a passing test run records the companion(q) of each spec file q it ran whose
\* name ends in '.spec.ts'
SourcesBy(companion(_)) ==
    \A q \in Range(specFilesToRun) :
        EndsWith(q, DOT_SPEC_TS)
            => \E h \in HashesRead(companion(q)) : PassedWith(SourceKey(companion(q)), h)

\* C30 as stated: the test file of a changed source file is the path with its
\* trailing '.ts' replaced by '.spec.ts', and the companion source recorded for a
\* spec file that passed is the path with its trailing '.spec.ts' replaced by '.ts',
\* for every path
C30_PairingByTrailingSuffix ==
    [][/\ StartsRun => SelectedSpecs = CandidatesBy(TrailingSpec)
       /\ (ExitsZero("Test") /\ ~disableCache) => SourcesBy(TrailingSource)]_vars

\* C30 amended: the test file of a changed source file is the path with its FIRST
\* '.ts' replaced by '.spec.ts', and the companion source recorded for a spec file
\* that passed is the path with its FIRST '.spec.ts' replaced by '.ts'
C30_PairingByFirstOccurrence ==
    [][/\ StartsRun
          => SelectedSpecs = CandidatesBy(LAMBDA p : FirstReplaced(p, DOT_TS, DOT_SPEC_TS))
       /\ (ExitsZero("Test") /\ ~disableCache)
          => SourcesBy(LAMBDA q : FirstReplaced(q, DOT_SPEC_TS, DOT_TS))]_vars

\* src/a.tsconfig.ts changed, the test file selected for it was
\* src/a.spec.tsconfig.ts, its run passed and recorded src/a.tsconfig.ts
C30_Witness ==
    /\ Len(changes) = 1
    /\ changes[1].file = AC_TS
    /\ specFilesToRun = <<ASPEC_C_TS>>
    /\ proc["Test"].state = "closed"
    /\ proc["Test"].code = "0"
    /\ Has(cache, SourceKey(AC_TS))
    /\ ~Has(cache, SourceKey(AC_SPEC))

\* the file a cache key stands for: the path after 'source:' or 'lint:', or the
\* bare path of a spec file
KeyPath(k) ==
    IF StartsWith(k, <<"source:">>) \/ StartsWith(k, <<"lint:">>) THEN Tail(k) ELSE k

\* this step of a running run writes the entry under key k (the step that starts a
\* run loads the entries of the cache file and writes none)
Writes(k) == ~StartsRun /\ Has(cache', k) /\ EntryOf(cache', k) # EntryOf(cache, k)

\* C31: every cache entry, in memory and persisted, has a non-null content hash and a
\* status of passed or failed; an entry is written for a key only when the file of
\* the key is readable at that moment, with the hash of what was read; and the key
\* of a file that is not readable gets no entry
C31_EntriesAreOfReadableFiles ==
    [][/\ \A k \in DOMAIN cache' :
             cache'[k].hash # Null /\ cache'[k].status \in {"passed", "failed"}
       /\ \A k \in DOMAIN loadCache(cacheFile') :
             /\ loadCache(cacheFile')[k].hash # Null
             /\ loadCache(cacheFile')[k].status \in {"passed", "failed"}
       /\ \A k \in DOMAIN cache' :
             Writes(k) => /\ FileExists(fs, KeyPath(k))
                          /\ cache'[k].hash \in HashesRead(KeyPath(k))
       /\ \A f \in Range(lintResult.toRun) \cup Range(specFilesToRun) :
             ~FileExists(fs, f)
                 => \A k \in {f, SourceKey(f), LintKey(f)} :
                       EntryOf(cache', k) = EntryOf(cache, k)]_vars

\* a passed lint run over a deleted file and a readable one has written an entry for
\* the readable file and none for the deleted one
C31_Witness ==
    /\ ~disableCache
    /\ proc["Lint"].state = "closed"
    /\ proc["Lint"].code = "0"
    /\ \E f \in Range(lintResult.toRun) :
          ~FileExists(fs, f) /\ ~Has(cache, LintKey(f))
    /\ \E g \in Range(lintResult.toRun) :
          /\ FileExists(fs, g)
          /\ Has(cache, LintKey(g))
          /\ cache[LintKey(g)].timestamp = RunStamp
          /\ loadCache(cacheFile) = cache

\* the type the program gives a status line that is neither the first nor the last
\* line of the output
TypeWhenLater(line) ==
    detectGitChanges(Printed(<<StatusLine("M", " ", A_TS), line,
                               StatusLine("M", " ", A_TS)>>))[2].type

\* C32 as stated: the type of the record of a status line is the type the same line
\* gets at a later position of the output, also when the line starts with a blank
\* status character.  Refuted: the output is trimmed as a whole, so ' D src/a.ts' is
\* typed 'deleted' as the first line and 'modified' as a later one.
C32_TypeIndependentOfPosition ==
    ~statusOutput.failed
       => \A i \in 1..Len(RecordLines) :
             i <= Len(changes) => changes[i].type = TypeWhenLater(RecordLines[i])

====
